---- MODULE Spec2Model ----
(***************************************************************************)
(* Resilience layer of the Zixir vector-database bridge:                   *)
(*   priv/python/vector_db_pool.py   ConnectionPool, QueryCache,           *)
(*                                   CircuitBreaker                        *)
(*   priv/python/vector_db_bridge.py VectorDBBridge.search / add           *)
(* Every caller is a thread; one step of the model is one atomic step of   *)
(* one thread (a semaphore operation, a method body run under a lock, one  *)
(* invocation of the backend operation).                                   *)
(***************************************************************************)
EXTENDS Integers, Sequences, FiniteSets, TLC

\* ------------------------------------------------------------------ bounds
NumCallers == 2
MaxCalls == 2
MaxGuards == 4
MaxTime == 3
MaxThreshold == 2
MaxTimeout == 2
MaxSearches == 3
MaxAdds == 2
MaxStats == 3
MaxInits == 3
MaxOdbcCalls == 5
MaxLockCalls == 2
max_pool_size == 2
MaxCacheOps == 3
LowMaxDelay == 3
NumKeys == 2

\* QueryCache(max_size=..., ttl_seconds=...), kept small: MaxSize is the
\* largest capacity a cache is constructed with.
MaxSize == 2
ttl_seconds == 1

\* ConnectionPool(max_connections=..., max_retries=3): the number of permits
\* is kept small, the retry budget is the one get_pool configures.
max_connections == 1
max_retries == 3

Callers == 1..NumCallers

\* Distinct values of _make_key(query, top_k, filter).
Keys == 1..NumKeys
\* the three module dictionaries _pools, _caches, _breakers, in the order
\* VectorDBBridge.__init__ reads them
Kinds == <<"pool", "cache", "breaker">>
KindSet == {Kinds[i] : i \in 1..Len(Kinds)}

VARIABLES
    \* ConnectionPool
    available,          \* self._available (semaphore value)
    metrics,            \* self._metrics (RequestMetrics counters)
    healthy,            \* self._healthy
    retry_base_delay,   \* self.retry_base_delay, in tenths of a second
    retry_max_delay,    \* self.retry_max_delay, in tenths of a second
    tally,              \* per caller: the samples its current call has put
                        \* into the metrics and the delays it has slept,
                        \* kept for the properties only
    \* per caller (thread) state
    pc,                 \* position of the thread
    op,                 \* entry point of the current / last call
    attempt,            \* loop variable of execute_with_retry
    holds,              \* permits the thread holds
    invoked,            \* invocations of the operation by the current call
    err,                \* exception in flight ("none" when there is none)
    val,                \* value computed by the operation, in flight
    result,             \* what the last call returned or raised
    local,              \* local variables of the method the thread is in,
                        \* and what a rejection or stats() last told it
    ncalls,             \* calls started so far
    \* CircuitBreaker
    state,              \* self._state
    failure_count,      \* self._failure_count
    success_count,      \* self._success_count
    last_failure_time,  \* self._last_failure_time
    failure_threshold,  \* constructor arguments, fixed after Init
    success_threshold,
    timeout_seconds,
    \* QueryCache
    max_size,           \* self.max_size
    cache,              \* self._cache, entries in insertion order
    hits,               \* self._hits
    misses,             \* self._misses
    key,                \* per caller: the cache key of its search
    \* time.time()
    now,
    \* history of the breaker, kept for the properties only
    consec_failures,    \* failures recorded since the last recorded success
    probe_successes,    \* successes recorded in the current HalfOpen episode
    \* module level of vector_db_pool
    registry,           \* _pools, _caches, _breakers: per kind, the instance
                        \* stored under the backend name (None: no item)
    \* odbc_bridge: one ConnectionPool of the ODBCBridge
    odbc_pools,         \* pool_id in ODBCBridge._pools
    odbc_pool,          \* ConnectionPool._pool, the idle connections
    odbc_active,        \* ConnectionPool._active
    conn,               \* per caller: the open PooledConnection it holds
    created,            \* connections created so far (names the next one)
    \* threading.Lock of the cache and of the breaker
    lock                \* per lock: the thread inside `with self._lock` (None: free)

poolVars == <<available, metrics, healthy, tally>>
poolConfig == <<retry_base_delay, retry_max_delay>>
callerVars == <<pc, op, attempt, holds, invoked, err, val, result, ncalls>>
breakerVars == <<state, failure_count, success_count, last_failure_time>>
breakerConfig == <<failure_threshold, success_threshold, timeout_seconds>>
historyVars == <<consec_failures, probe_successes>>
cacheVars == <<cache, hits, misses, key>>
cacheConfig == <<max_size>>
moduleVars == <<registry>>
odbcVars == <<odbc_pools, odbc_pool, odbc_active, conn, created>>
\* what no method of the pool, the breaker or the cache assigns
lockVars == <<lock>>
config == <<breakerConfig, cacheConfig, poolConfig, moduleVars, odbcVars, lockVars>>
threadVars == <<local>>
outsidePool == <<breakerVars, config, threadVars, historyVars, cacheVars, now>>
vars == <<available, metrics, healthy, retry_base_delay, retry_max_delay, tally,
          pc, op, attempt, holds, invoked, err, val, result, ncalls, local,
          state, failure_count, success_count, last_failure_time,
          failure_threshold, success_threshold, timeout_seconds,
          max_size, cache, hits, misses, key,
          now, consec_failures, probe_successes,
          registry, odbc_pools, odbc_pool, odbc_active, conn, created, lock>>

\* ----------------------------------------------------------------- values
Results == {"r1", "r2"}
NoResult == [kind |-> "none", val |-> "none"]
NoLocals == [kind |-> "none"]
Value(v) == [kind |-> "value", val |-> v]
Raise(e) == [kind |-> "raise", val |-> e]

\* Outcomes of one invocation of the backend operation.
Outcomes == {"ok", "transient", "permanent"}

\* A handler tuple without TimeoutError: only the operation's own transient
\* errors are retried.
IsTransientOperationOnly(e) == e = "transient"

\* except (ConnectionError, TimeoutError, OSError): the admission timeout is a
\* TimeoutError and lands in the same handler as a transient error of the
\* operation.
IsTransient(e) == e \in {"transient", "pool_exhausted"}

\* --------------------------------------------------------- RequestMetrics
NewMetrics == [total_requests |-> 0, successful_requests |-> 0,
               failed_requests |-> 0]

\* A success that is counted as a request but not as a success.
record_success_total_only(m) ==
    [m EXCEPT !.total_requests = @ + 1]

record_success_m(m) ==
    [m EXCEPT !.total_requests = @ + 1, !.successful_requests = @ + 1]

record_failure_m(m) ==
    [m EXCEPT !.total_requests = @ + 1, !.failed_requests = @ + 1]

\* --------------------------------------------------------- ConnectionPool
\* for attempt in range(self.max_retries + 1)
FirstAttempt == 0
InAttemptRange(a) == a < max_retries + 1

\* A budget test that lets the last attempt sleep as well.
HasRetryBudgetAlways(a) == a < max_retries + 1

\* if attempt < self.max_retries
HasRetryBudget(a) == a < max_retries

\* get_pool(backend) passes retry_base_delay=0.1; retry_max_delay keeps its
\* default of 10.0. Delays are counted in tenths of a second.
default_retry_base_delay == 1
default_retry_max_delay == 100

Min2(a, b) == IF a < b THEN a ELSE b

\* A delay that forgets the cap.
DelayUncapped(a) == retry_base_delay * (2 ^ a)

\* delay = min(self.retry_base_delay * (2 ** attempt), self.retry_max_delay)
Delay(a) == Min2(retry_base_delay * (2 ^ a), retry_max_delay)


\* RequestMetrics.success_rate() > 0.9, in integers; the rate is 1.0 while
\* nothing has been recorded.
success_rate_above_90(m) ==
    IF m.total_requests = 0
    THEN TRUE
    ELSE 10 * m.successful_requests > 9 * m.total_requests

\* ConnectionPool.is_healthy()
is_healthy == healthy /\ success_rate_above_90(metrics)

\* ConnectionPool.health_check()
health_check ==
    [healthy |-> healthy,
     available_connections |-> available,
     max_connections |-> max_connections,
     metrics |-> metrics]

\* What a call has recorded and slept so far: the samples are read off the
\* change of the metrics in the step, the delay off the sleep.
NewTally == [failed |-> 0, succeeded |-> 0, slept |-> << >>]
Sampled(c) ==
    [tally[c] EXCEPT
       !.failed = @ + (metrics'.failed_requests - metrics.failed_requests),
       !.succeeded = @ + (metrics'.successful_requests
                            - metrics.successful_requests)]

\* The call returns to the application: a value, or the exception in flight.
Outcome(c) == IF err[c] = "none" THEN Value(val[c]) ELSE Raise(err[c])

Finish(c, r) ==
    /\ pc' = [pc EXCEPT ![c] = "idle"]
    /\ result' = [result EXCEPT ![c] = r]
    /\ err' = [err EXCEPT ![c] = "none"]
    /\ val' = [val EXCEPT ![c] = "none"]

\* execute_with_retry returns or raises: to the application when it was
\* called directly, else into the breaker guard's __exit__ around it.
PoolReturn(c) ==
    IF op[c] = "execute"
    THEN Finish(c, Outcome(c))
    ELSE /\ pc' = [pc EXCEPT ![c] = "exit"]
         /\ UNCHANGED <<err, val, result>>

\* Threads are interchangeable: thread c makes its first call after thread
\* c - 1 has made one.
MayCall(c) ==
    /\ pc[c] = "idle"
    /\ IF c = 1 THEN TRUE ELSE op[c - 1] # "none"

\* A thread calls pool.execute_with_retry(operation).
CallExecute(c) ==
    /\ MayCall(c)
    /\ ncalls < MaxCalls
    /\ ncalls' = ncalls + 1
    /\ op' = [op EXCEPT ![c] = "execute"]
    /\ pc' = [pc EXCEPT ![c] = "acquire"]
    /\ attempt' = [attempt EXCEPT ![c] = FirstAttempt]
    /\ invoked' = [invoked EXCEPT ![c] = 0]
    /\ result' = [result EXCEPT ![c] = NoResult]
    /\ err' = [err EXCEPT ![c] = "none"]
    /\ val' = [val EXCEPT ![c] = "none"]
    /\ tally' = [tally EXCEPT ![c] = NewTally]
    /\ UNCHANGED <<available, metrics, healthy, holds>>
    /\ UNCHANGED outsidePool

\* self._available.acquire(timeout=...) returns True.
Acquire(c) ==
    /\ pc[c] = "acquire"
    /\ available > 0
    /\ available' = available - 1
    /\ holds' = [holds EXCEPT ![c] = @ + 1]
    /\ pc' = [pc EXCEPT ![c] = "run"]
    /\ UNCHANGED <<metrics, healthy, tally, op, attempt, invoked, err, val, result, ncalls>>
    /\ UNCHANGED outsidePool

\* An admission timeout that releases a permit it never acquired.
AcquireTimeoutReleasing(c) ==
    /\ pc[c] = "acquire"
    /\ available = 0
    /\ available' = available + 1
    /\ err' = [err EXCEPT ![c] = "pool_exhausted"]
    /\ pc' = [pc EXCEPT ![c] = "except"]
    /\ UNCHANGED <<metrics, healthy, tally, op, attempt, holds, invoked, val, result, ncalls>>
    /\ UNCHANGED outsidePool

\* acquire returns False (no permit for connection_timeout):
\* raise TimeoutError("Connection pool exhausted"), outside the inner try.
AcquireTimeout(c) ==
    /\ pc[c] = "acquire"
    /\ available = 0
    /\ err' = [err EXCEPT ![c] = "pool_exhausted"]
    /\ pc' = [pc EXCEPT ![c] = "except"]
    /\ UNCHANGED <<poolVars, op, attempt, holds, invoked, val, result, ncalls>>
    /\ UNCHANGED outsidePool

\* result = operation(*args, **kwargs): returns a value or raises.
RunOperation(c) ==
    /\ pc[c] = "run"
    /\ op[c] # "add_batch"
    /\ invoked' = [invoked EXCEPT ![c] = @ + 1]
    /\ \E out \in Outcomes :
         IF out = "ok"
         THEN \E r \in Results :
                /\ val' = [val EXCEPT ![c] = r]
                /\ pc' = [pc EXCEPT ![c] = "record_success"]
                /\ UNCHANGED err
         ELSE /\ err' = [err EXCEPT ![c] = out]
              /\ pc' = [pc EXCEPT ![c] = "finally"]
              /\ UNCHANGED val
    /\ UNCHANGED <<poolVars, op, attempt, holds, result, ncalls>>
    /\ UNCHANGED outsidePool


\* A success that is recorded without touching the healthy flag.
RecordSuccessKeepingFlag(c) ==
    /\ pc[c] = "record_success"
    /\ metrics' = record_success_m(metrics)
    /\ tally' = [tally EXCEPT ![c] = Sampled(c)]
    /\ pc' = [pc EXCEPT ![c] = "finally"]
    /\ UNCHANGED <<available, healthy, op, attempt, holds, invoked, err, val,
                   result, ncalls>>
    /\ UNCHANGED outsidePool

\* self._metrics.record_success(latency_ms); self._healthy = True
RecordSuccess(c) ==
    /\ pc[c] = "record_success"
    /\ metrics' = record_success_m(metrics)
    /\ healthy' = TRUE
    /\ tally' = [tally EXCEPT ![c] = Sampled(c)]
    /\ pc' = [pc EXCEPT ![c] = "finally"]
    /\ UNCHANGED <<available, op, attempt, holds, invoked, err, val, result, ncalls>>
    /\ UNCHANGED outsidePool

\* A release that happens on the success path only.
FinallyKeepOnError(c) ==
    /\ pc[c] = "finally"
    /\ IF err[c] = "none"
       THEN /\ available' = available + 1
            /\ holds' = [holds EXCEPT ![c] = @ - 1]
            /\ PoolReturn(c)
       ELSE /\ pc' = [pc EXCEPT ![c] = "except"]
            /\ UNCHANGED <<available, holds, err, val, result>>
    /\ UNCHANGED <<metrics, healthy, tally, op, attempt, invoked, ncalls>>
    /\ UNCHANGED outsidePool

\* finally: self._available.release(); then the return, or the handler of
\* the exception in flight.
Finally(c) ==
    /\ pc[c] = "finally"
    /\ available' = available + 1
    /\ holds' = [holds EXCEPT ![c] = @ - 1]
    /\ IF err[c] = "none"
       THEN /\ PoolReturn(c)
       ELSE /\ pc' = [pc EXCEPT ![c] = "except"]
            /\ UNCHANGED <<err, val, result>>
    /\ UNCHANGED <<metrics, healthy, tally, op, attempt, invoked, ncalls>>
    /\ UNCHANGED outsidePool

\* A handler that reports each failed attempt to the breaker as well.
ExceptTransientTripping(c) ==
    /\ pc[c] = "except"
    /\ IsTransient(err[c])
    /\ metrics' = record_failure_m(metrics)
    /\ IF HasRetryBudget(attempt[c])
       THEN /\ tally' = [tally EXCEPT ![c] =
                          [Sampled(c) EXCEPT
                             !.slept = Append(@, Delay(attempt[c]))]]
            /\ pc' = [pc EXCEPT ![c] = "sleep"]
            /\ UNCHANGED <<healthy, err, val, result>>
       ELSE /\ tally' = [tally EXCEPT ![c] = Sampled(c)]
            /\ healthy' = FALSE
            /\ PoolReturn(c)
    /\ UNCHANGED <<available, op, attempt, holds, invoked, ncalls>>
    /\ failure_count' = failure_count + 1
    /\ last_failure_time' = now
    /\ state' = IF failure_count + 1 >= failure_threshold /\ state = "closed"
                THEN "open" ELSE state
    /\ UNCHANGED <<success_count, config, threadVars, historyVars, cacheVars, now>>

\* except (ConnectionError, TimeoutError, OSError): record_failure, then
\* sleep if attempt < max_retries, else _healthy = False and re-raise.
ExceptTransient(c) ==
    /\ pc[c] = "except"
    /\ IsTransient(err[c])
    /\ metrics' = record_failure_m(metrics)
    /\ IF HasRetryBudget(attempt[c])
       THEN /\ tally' = [tally EXCEPT ![c] =
                          [Sampled(c) EXCEPT
                             !.slept = Append(@, Delay(attempt[c]))]]
            /\ pc' = [pc EXCEPT ![c] = "sleep"]
            /\ UNCHANGED <<healthy, err, val, result>>
       ELSE /\ tally' = [tally EXCEPT ![c] = Sampled(c)]
            /\ healthy' = FALSE
            /\ PoolReturn(c)
    /\ UNCHANGED <<available, op, attempt, holds, invoked, ncalls>>
    /\ UNCHANGED outsidePool

\* A handler that gives other errors the retries of transient ones.
ExceptOtherRetrying(c) ==
    /\ pc[c] = "except"
    /\ ~IsTransient(err[c])
    /\ metrics' = record_failure_m(metrics)
    /\ IF HasRetryBudget(attempt[c])
       THEN /\ tally' = [tally EXCEPT ![c] =
                          [Sampled(c) EXCEPT
                             !.slept = Append(@, Delay(attempt[c]))]]
            /\ pc' = [pc EXCEPT ![c] = "sleep"]
            /\ UNCHANGED <<err, val, result>>
       ELSE /\ tally' = [tally EXCEPT ![c] = Sampled(c)]
            /\ PoolReturn(c)
    /\ UNCHANGED <<available, healthy, op, attempt, holds, invoked, ncalls>>
    /\ UNCHANGED outsidePool

\* except Exception: record_failure, re-raise.
ExceptOther(c) ==
    /\ pc[c] = "except"
    /\ ~IsTransient(err[c])
    /\ metrics' = record_failure_m(metrics)
    /\ tally' = [tally EXCEPT ![c] = Sampled(c)]
    /\ PoolReturn(c)
    /\ UNCHANGED <<available, healthy, op, attempt, holds, invoked, ncalls>>
    /\ UNCHANGED outsidePool

\* A retry that does not advance the loop variable.
WakeNoAdvance(c) ==
    /\ pc[c] = "sleep"
    /\ pc' = [pc EXCEPT ![c] = "acquire"]
    /\ err' = [err EXCEPT ![c] = "none"]
    /\ UNCHANGED <<poolVars, op, attempt, holds, invoked, val, result, ncalls>>
    /\ UNCHANGED outsidePool

\* time.sleep(delay) returns; the for loop takes its next value, or ends
\* and falls to `raise last_exception`.
Wake(c) ==
    /\ pc[c] = "sleep"
    /\ IF InAttemptRange(attempt[c] + 1)
       THEN /\ attempt' = [attempt EXCEPT ![c] = @ + 1]
            /\ pc' = [pc EXCEPT ![c] = "acquire"]
            /\ err' = [err EXCEPT ![c] = "none"]
            /\ UNCHANGED <<val, result>>
       ELSE /\ PoolReturn(c)
            /\ UNCHANGED attempt
    /\ UNCHANGED <<poolVars, op, holds, invoked, ncalls>>
    /\ UNCHANGED outsidePool

\* --------------------------------------------------------- CircuitBreaker
CLOSED == "closed"
OPEN == "open"
HALF_OPEN == "half_open"

\* self._last_failure_time = None
None == -1

\* get_breaker(backend): the configuration of the per-backend singleton.
default_failure_threshold == 5
default_success_threshold == 3
default_timeout_seconds == 30

\* A cooldown test that needs strictly more than timeout_seconds.
CooldownElapsedStrict ==
    now - last_failure_time > timeout_seconds

\* time.time() - self._last_failure_time >= self.timeout_seconds
CooldownElapsed ==
    now - last_failure_time >= timeout_seconds


\* A can_execute that lets the probe in without resetting success_count.
can_execute_keeping_count(ret) ==
    IF state = CLOSED
    THEN ret = TRUE /\ UNCHANGED breakerVars
    ELSE IF state = OPEN
    THEN IF CooldownElapsed
         THEN /\ state' = HALF_OPEN
              /\ ret = TRUE
              /\ UNCHANGED <<failure_count, success_count, last_failure_time>>
         ELSE ret = FALSE /\ UNCHANGED breakerVars
    ELSE ret = TRUE /\ UNCHANGED breakerVars

\* can_execute(), under the lock; ret is the value it returns.
can_execute(ret) ==
    IF state = CLOSED
    THEN ret = TRUE /\ UNCHANGED breakerVars
    ELSE IF state = OPEN
    THEN IF CooldownElapsed
         THEN /\ state' = HALF_OPEN
              /\ success_count' = 0
              /\ ret = TRUE
              /\ UNCHANGED <<failure_count, last_failure_time>>
         ELSE ret = FALSE /\ UNCHANGED breakerVars
    ELSE ret = TRUE /\ UNCHANGED breakerVars

\* A success threshold that is passed only when exceeded.
ReachedSuccessThresholdStrict(n) == n > success_threshold

\* self._success_count >= self.success_threshold
ReachedSuccessThreshold(n) == n >= success_threshold

\* A record_success that also closes an Open breaker.
record_success_closing_open ==
    /\ IF state = HALF_OPEN
       THEN /\ success_count' = success_count + 1
            /\ IF ReachedSuccessThreshold(success_count + 1)
               THEN state' = CLOSED /\ failure_count' = 0
               ELSE UNCHANGED <<state, failure_count>>
       ELSE /\ failure_count' = 0
            /\ state' = CLOSED
            /\ UNCHANGED success_count
    /\ UNCHANGED last_failure_time

\* A record_success that closes the breaker without clearing the failures.
record_success_keeping_failures ==
    /\ IF state = HALF_OPEN
       THEN /\ success_count' = success_count + 1
            /\ IF ReachedSuccessThreshold(success_count + 1)
               THEN state' = CLOSED /\ UNCHANGED failure_count
               ELSE UNCHANGED <<state, failure_count>>
       ELSE IF state = CLOSED
       THEN failure_count' = 0 /\ UNCHANGED <<state, success_count>>
       ELSE UNCHANGED <<state, failure_count, success_count>>
    /\ UNCHANGED last_failure_time

\* record_success(), under the lock.
record_success ==
    /\ IF state = HALF_OPEN
       THEN /\ success_count' = success_count + 1
            /\ IF ReachedSuccessThreshold(success_count + 1)
               THEN state' = CLOSED /\ failure_count' = 0
               ELSE UNCHANGED <<state, failure_count>>
       ELSE IF state = CLOSED
       THEN failure_count' = 0 /\ UNCHANGED <<state, success_count>>
       ELSE UNCHANGED <<state, failure_count, success_count>>
    /\ UNCHANGED last_failure_time

\* A failure threshold that is passed only when exceeded.
ReachedFailureThresholdStrict(n) == n > failure_threshold

\* self._failure_count >= self.failure_threshold
ReachedFailureThreshold(n) == n >= failure_threshold

\* A record_failure without the HalfOpen branch.
record_failure_closed_only ==
    /\ failure_count' = failure_count + 1
    /\ last_failure_time' = now
    /\ state' = IF state = CLOSED /\ ReachedFailureThreshold(failure_count + 1)
                THEN OPEN ELSE state
    /\ UNCHANGED success_count

\* record_failure(), under the lock.
record_failure ==
    /\ failure_count' = failure_count + 1
    /\ last_failure_time' = now
    /\ state' = IF state = HALF_OPEN
                THEN OPEN
                ELSE IF state = CLOSED /\ ReachedFailureThreshold(failure_count + 1)
                THEN OPEN
                ELSE state
    /\ UNCHANGED success_count


\* A remaining time that is not floored at 0.
retry_after_unfloored ==
    IF last_failure_time = None
    THEN 0
    ELSE timeout_seconds - (now - last_failure_time)

\* _retry_after()
retry_after ==
    IF last_failure_time = None
    THEN 0
    ELSE IF timeout_seconds - (now - last_failure_time) > 0
    THEN timeout_seconds - (now - last_failure_time)
    ELSE 0

\* CircuitBreakerOpen(f"... retry after {self._retry_after():.1f}s")
Rejection(n) == [kind |-> "breaker_open", retry_after |-> n]

\* stats(), under the lock; the dictionary it returns.
breaker_stats ==
    [kind |-> "stats",
     state |-> state,
     failure_count |-> failure_count,
     success_count |-> success_count,
     retry_after_seconds |-> retry_after]

\* ------------------------------------------------- the guard, per caller
\* A thread enters `with breaker:` around an operation.
CallGuarded(c) ==
    /\ MayCall(c)
    /\ ncalls < MaxGuards
    /\ ncalls' = ncalls + 1
    /\ op' = [op EXCEPT ![c] = "guard"]
    /\ pc' = [pc EXCEPT ![c] = "enter"]
    /\ attempt' = [attempt EXCEPT ![c] = FirstAttempt]
    /\ invoked' = [invoked EXCEPT ![c] = 0]
    /\ result' = [result EXCEPT ![c] = NoResult]
    /\ err' = [err EXCEPT ![c] = "none"]
    /\ val' = [val EXCEPT ![c] = "none"]
    /\ local' = [local EXCEPT ![c] = NoLocals]
    /\ UNCHANGED <<poolVars, holds, breakerVars, config, historyVars,
                   cacheVars, now>>

\* First step of the guarded body, by entry point.
BodyStart(o) ==
    IF o \in {"add", "add_batch"} THEN "acquire"
    ELSE IF o = "search" THEN "search_op"
    ELSE "body"

\* An exception leaves the with statement: into search's except clause, or
\* out of the call.
Escape(c, e) ==
    IF op[c] = "search"
    THEN /\ pc' = [pc EXCEPT ![c] = "invalidate"]
         /\ err' = [err EXCEPT ![c] = e]
         /\ UNCHANGED <<val, result>>
    ELSE Finish(c, Raise(e))


\* An __enter__ that counts a denied entry as a failure, as __exit__ would.
EnterRecordingDenial(c) ==
    /\ pc[c] = "enter"
    /\ IF state = OPEN /\ ~CooldownElapsed
       THEN /\ record_failure
            /\ Escape(c, "breaker_open")
       ELSE /\ can_execute(TRUE)
            /\ pc' = [pc EXCEPT ![c] = BodyStart(op[c])]
            /\ UNCHANGED <<err, val, result>>
    /\ probe_successes' =
         IF state # HALF_OPEN /\ state' = HALF_OPEN THEN 0 ELSE probe_successes
    /\ UNCHANGED <<poolVars, op, attempt, holds, invoked, ncalls,
                   config, threadVars, consec_failures, cacheVars, now>>

\* __enter__: can_execute(); a denied entry raises CircuitBreakerOpen, which
\* leaves the with statement without running __exit__.
Enter(c) ==
    /\ pc[c] = "enter"
    /\ \E ret \in BOOLEAN :
         /\ can_execute(ret)
         /\ IF ret
            THEN /\ pc' = [pc EXCEPT ![c] = BodyStart(op[c])]
                 /\ UNCHANGED <<err, val, result, local>>
            ELSE /\ Escape(c, "breaker_open")
                 /\ local' = [local EXCEPT ![c] = Rejection(retry_after)]
    /\ probe_successes' =
         IF state # HALF_OPEN /\ state' = HALF_OPEN THEN 0 ELSE probe_successes
    /\ UNCHANGED <<poolVars, op, attempt, holds, invoked, ncalls,
                   config, consec_failures, cacheVars, now>>

\* The guarded operation itself, when nothing else is wrapped around it.
Body(c) ==
    /\ pc[c] = "body"
    /\ invoked' = [invoked EXCEPT ![c] = @ + 1]
    /\ \E out \in Outcomes :
         IF out = "ok"
         THEN \E r \in Results :
                /\ val' = [val EXCEPT ![c] = r]
                /\ UNCHANGED err
         ELSE /\ err' = [err EXCEPT ![c] = out]
              /\ UNCHANGED val
    /\ pc' = [pc EXCEPT ![c] = "exit"]
    /\ UNCHANGED <<poolVars, op, attempt, holds, result, ncalls,
                   breakerVars, config, threadVars, historyVars, cacheVars, now>>

\* __exit__: record_success() if the body returned, record_failure() if it
\* raised; the exception propagates (return False).
Exit(c) ==
    /\ pc[c] = "exit"
    /\ IF err[c] = "none" THEN record_success ELSE record_failure
    /\ IF err[c] = "none" THEN Finish(c, Value(val[c])) ELSE Escape(c, err[c])
    /\ consec_failures' = IF err[c] = "none" THEN 0 ELSE consec_failures + 1
    /\ probe_successes' =
         IF err[c] = "none" /\ state = HALF_OPEN
         THEN probe_successes + 1 ELSE probe_successes
    /\ UNCHANGED <<poolVars, op, attempt, holds, invoked, ncalls,
                   config, threadVars, cacheVars, now>>


\* A thread calls breaker.stats().
CallStats(c) ==
    /\ MayCall(c)
    /\ ncalls < MaxStats
    /\ ncalls' = ncalls + 1
    /\ op' = [op EXCEPT ![c] = "stats"]
    /\ pc' = [pc EXCEPT ![c] = "stats"]
    /\ result' = [result EXCEPT ![c] = NoResult]
    /\ UNCHANGED <<attempt, holds, invoked, err, val>>
    /\ UNCHANGED <<poolVars, breakerVars, config, threadVars, historyVars,
                   cacheVars, now>>

\* stats() takes the lock, builds the dictionary and returns it.
Stats(c) ==
    /\ pc[c] = "stats"
    /\ pc' = [pc EXCEPT ![c] = "idle"]
    /\ local' = [local EXCEPT ![c] = breaker_stats]
    /\ UNCHANGED <<op, attempt, holds, invoked, err, val, result, ncalls>>
    /\ UNCHANGED <<poolVars, breakerVars, config, historyVars, cacheVars, now>>

\* time passes
Tick ==
    /\ now < MaxTime
    /\ now' = now + 1
    /\ UNCHANGED <<poolVars, callerVars, breakerVars, config, threadVars, historyVars,
                   cacheVars>>

\* ------------------------------------------------------------- QueryCache
\* What get returns on a miss.
Miss == "None"

HasIn(q, k) == \E i \in 1..Len(q) : q[i].key = k
Has(k) == HasIn(cache, k)
IndexOf(k) == CHOOSE i \in 1..Len(cache) : cache[i].key = k
Without(i) == [j \in 1..(Len(cache) - 1) |-> IF j < i THEN cache[j] ELSE cache[j + 1]]

\* An expiry test that already fires at an age of exactly ttl_seconds.
ExpiredAtTtl(e) == now - e.timestamp >= ttl_seconds

\* time.time() - cached["timestamp"] > self.ttl_seconds
Expired(e) == now - e.timestamp > ttl_seconds


\* A get that drops an expired entry without counting the miss.
cache_get_expiry_uncounted(k, ret) ==
    IF ~Has(k)
    THEN /\ misses' = misses + 1
         /\ ret = Miss
         /\ UNCHANGED <<cache, hits>>
    ELSE IF Expired(cache[IndexOf(k)])
    THEN /\ cache' = Without(IndexOf(k))
         /\ ret = Miss
         /\ UNCHANGED <<hits, misses>>
    ELSE /\ hits' = hits + 1
         /\ ret = cache[IndexOf(k)].results
         /\ UNCHANGED <<cache, misses>>

\* get(), under the lock; ret is the value it returns.
cache_get(k, ret) ==
    IF ~Has(k)
    THEN /\ misses' = misses + 1
         /\ ret = Miss
         /\ UNCHANGED <<cache, hits>>
    ELSE IF Expired(cache[IndexOf(k)])
    THEN /\ cache' = Without(IndexOf(k))
         /\ misses' = misses + 1
         /\ ret = Miss
         /\ UNCHANGED hits
    ELSE /\ hits' = hits + 1
         /\ ret = cache[IndexOf(k)].results
         /\ UNCHANGED <<cache, misses>>

\* An eviction that picks the youngest entry.
NewestIndex ==
    CHOOSE i \in 1..Len(cache) :
        /\ \A j \in 1..Len(cache) : cache[i].timestamp >= cache[j].timestamp
        /\ \A j \in 1..(i - 1) : cache[j].timestamp < cache[i].timestamp

\* min(self._cache.keys(), key=timestamp): the first entry, in insertion
\* order, among those with the smallest timestamp.
OldestIndex ==
    CHOOSE i \in 1..Len(cache) :
        /\ \A j \in 1..Len(cache) : cache[i].timestamp <= cache[j].timestamp
        /\ \A j \in 1..(i - 1) : cache[j].timestamp > cache[i].timestamp

\* An assignment that leaves the entry of a present key as it was.
PutKeepingOld(q, k, r) ==
    IF \E i \in 1..Len(q) : q[i].key = k
    THEN q
    ELSE Append(q, [key |-> k, results |-> r, timestamp |-> now])

\* self._cache[key] = {...}: a present key keeps its place, a new one is last.
Put(q, k, r) ==
    LET e == [key |-> k, results |-> r, timestamp |-> now] IN
    IF \E i \in 1..Len(q) : q[i].key = k
    THEN [i \in 1..Len(q) |-> IF q[i].key = k THEN e ELSE q[i]]
    ELSE Append(q, e)

\* A capacity test that lets the cache grow one entry past max_size.
AtCapacityStrict == Len(cache) > max_size

\* len(self._cache) >= self.max_size
AtCapacity == Len(cache) >= max_size

\* A set that stores nothing.
cache_set_dropped(k, r) ==
    UNCHANGED <<cache, hits, misses>>


\* A set that keeps the entry a key already has (first write wins).
cache_set_if_absent(k, r) ==
    /\ cache' = IF Has(k)
                THEN cache
                ELSE IF AtCapacity
                THEN Put(Without(OldestIndex), k, r)
                ELSE Put(cache, k, r)
    /\ UNCHANGED <<hits, misses>>

\* set(), under the lock.
cache_set(k, r) ==
    /\ cache' = IF AtCapacity
                THEN Put(Without(OldestIndex), k, r)
                ELSE Put(cache, k, r)
    /\ UNCHANGED <<hits, misses>>

\* clear(), under the lock: self._cache.clear()
cache_clear ==
    /\ cache' = << >>
    /\ UNCHANGED <<hits, misses>>

\* A pop that leaves the entry in place.
cache_invalidate_noop(k) ==
    UNCHANGED <<cache, hits, misses>>


\* An invalidate that empties the cache when it finds the key.
cache_invalidate_clearing(k) ==
    /\ cache' = IF Has(k) THEN << >> ELSE cache
    /\ UNCHANGED <<hits, misses>>

\* invalidate(), under the lock: self._cache.pop(key, None)
cache_invalidate(k) ==
    /\ cache' = IF Has(k) THEN Without(IndexOf(k)) ELSE cache
    /\ UNCHANGED <<hits, misses>>

\* ---------------------------------------------------------- VectorDBBridge
\* search(query_embedding, top_k, filter) with use_cache and a cache.
CallSearch(c) ==
    /\ MayCall(c)
    /\ ncalls < MaxSearches
    /\ ncalls' = ncalls + 1
    /\ \E k \in Keys : key' = [key EXCEPT ![c] = k]
    /\ op' = [op EXCEPT ![c] = "search"]
    /\ pc' = [pc EXCEPT ![c] = "cache_get"]
    /\ attempt' = [attempt EXCEPT ![c] = FirstAttempt]
    /\ invoked' = [invoked EXCEPT ![c] = 0]
    /\ result' = [result EXCEPT ![c] = NoResult]
    /\ err' = [err EXCEPT ![c] = "none"]
    /\ val' = [val EXCEPT ![c] = "none"]
    /\ local' = [local EXCEPT ![c] = NoLocals]
    /\ UNCHANGED <<poolVars, holds, breakerVars, config, historyVars,
                   cache, hits, misses, now>>

\* An add that empties the query cache before it starts.
CallAddClearing(c) ==
    /\ MayCall(c)
    /\ ncalls < MaxAdds
    /\ ncalls' = ncalls + 1
    /\ op' = [op EXCEPT ![c] = "add"]
    /\ pc' = [pc EXCEPT ![c] = "enter"]
    /\ attempt' = [attempt EXCEPT ![c] = FirstAttempt]
    /\ invoked' = [invoked EXCEPT ![c] = 0]
    /\ result' = [result EXCEPT ![c] = NoResult]
    /\ err' = [err EXCEPT ![c] = "none"]
    /\ val' = [val EXCEPT ![c] = "none"]
    /\ local' = [local EXCEPT ![c] = NoLocals]
    /\ tally' = [tally EXCEPT ![c] = NewTally]
    /\ cache_clear
    /\ UNCHANGED <<available, metrics, healthy, holds, breakerVars, config, historyVars, key, now>>

\* add(doc_id, embedding, metadata): the breaker guard around _add_impl,
\* which hands its operation to execute_with_retry.
CallAdd(c) ==
    /\ MayCall(c)
    /\ ncalls < MaxAdds
    /\ ncalls' = ncalls + 1
    /\ op' = [op EXCEPT ![c] = "add"]
    /\ pc' = [pc EXCEPT ![c] = "enter"]
    /\ attempt' = [attempt EXCEPT ![c] = FirstAttempt]
    /\ invoked' = [invoked EXCEPT ![c] = 0]
    /\ result' = [result EXCEPT ![c] = NoResult]
    /\ err' = [err EXCEPT ![c] = "none"]
    /\ val' = [val EXCEPT ![c] = "none"]
    /\ local' = [local EXCEPT ![c] = NoLocals]
    /\ tally' = [tally EXCEPT ![c] = NewTally]
    /\ UNCHANGED <<available, metrics, healthy, holds, breakerVars, config, historyVars, cacheVars, now>>

\* A hit that is also recorded as a sample in the pool metrics.
CacheGetRecording(c) ==
    /\ pc[c] = "cache_get"
    /\ \E ret \in Results \cup {Miss} :
         /\ cache_get(key[c], ret)
         /\ IF ret # Miss
            THEN /\ Finish(c, Value(ret))
                 /\ metrics' = record_success_m(metrics)
            ELSE /\ pc' = [pc EXCEPT ![c] = "enter"]
                 /\ UNCHANGED <<err, val, result, metrics>>
    /\ UNCHANGED <<available, healthy, tally, op, attempt, holds, invoked,
                   ncalls, breakerVars, config, threadVars, historyVars, key, now>>


\* add_batch(documents, embeddings): the breaker guard around
\* _add_batch_impl, which hands its operation to execute_with_retry.
CallAddBatch(c) ==
    /\ MayCall(c)
    /\ ncalls < MaxAdds
    /\ ncalls' = ncalls + 1
    /\ op' = [op EXCEPT ![c] = "add_batch"]
    /\ pc' = [pc EXCEPT ![c] = "enter"]
    /\ \E n \in {0, 1} :
         local' = [local EXCEPT ![c] = [kind |-> "batch", documents |-> n]]
    /\ attempt' = [attempt EXCEPT ![c] = FirstAttempt]
    /\ invoked' = [invoked EXCEPT ![c] = 0]
    /\ result' = [result EXCEPT ![c] = NoResult]
    /\ err' = [err EXCEPT ![c] = "none"]
    /\ val' = [val EXCEPT ![c] = "none"]
    /\ tally' = [tally EXCEPT ![c] = NewTally]
    /\ UNCHANGED <<available, metrics, healthy, holds, breakerVars, config,
                   historyVars, cacheVars, now>>

\* A batch operation that gets to its per-document adds: the first
\* _add_impl calls execute_with_retry again, from inside the operation.
BatchOperationNested(c) ==
    /\ pc[c] = "run"
    /\ op[c] = "add_batch"
    /\ invoked' = [invoked EXCEPT ![c] = @ + 1]
    /\ IF local[c].documents = 0
       THEN /\ val' = [val EXCEPT ![c] = "0"]
            /\ pc' = [pc EXCEPT ![c] = "record_success"]
       ELSE /\ pc' = [pc EXCEPT ![c] = "acquire"]
            /\ UNCHANGED val
    /\ UNCHANGED <<poolVars, op, attempt, holds, err, result, ncalls>>
    /\ UNCHANGED outsidePool

\* The operation _add_batch_impl passes to execute_with_retry. Without
\* documents it returns 0. With documents it reads `embeddings`, which the
\* assignment further down makes a local of the nested function that is not
\* bound yet: UnboundLocalError, before any per-document _add_impl.
BatchOperation(c) ==
    /\ pc[c] = "run"
    /\ op[c] = "add_batch"
    /\ invoked' = [invoked EXCEPT ![c] = @ + 1]
    /\ IF local[c].documents = 0
       THEN /\ val' = [val EXCEPT ![c] = "0"]
            /\ pc' = [pc EXCEPT ![c] = "record_success"]
            /\ UNCHANGED err
       ELSE /\ err' = [err EXCEPT ![c] = "unbound_local"]
            /\ pc' = [pc EXCEPT ![c] = "finally"]
            /\ UNCHANGED val
    /\ UNCHANGED <<poolVars, op, attempt, holds, result, ncalls>>
    /\ UNCHANGED outsidePool

\* cached = self._cache.get(...); if cached is not None: return cached
CacheGet(c) ==
    /\ pc[c] = "cache_get"
    /\ \E ret \in Results \cup {Miss} :
         /\ cache_get(key[c], ret)
         /\ IF ret # Miss
            THEN Finish(c, Value(ret))
            ELSE /\ pc' = [pc EXCEPT ![c] = "enter"]
                 /\ UNCHANGED <<err, val, result>>
    /\ UNCHANGED <<poolVars, op, attempt, holds, invoked, ncalls,
                   breakerVars, config, threadVars, historyVars, key, now>>

\* operation(), first part: the backend search, called inside the breaker
\* guard and nothing else.
SearchOp(c) ==
    /\ pc[c] = "search_op"
    /\ invoked' = [invoked EXCEPT ![c] = @ + 1]
    /\ \E out \in Outcomes :
         IF out = "ok"
         THEN \E r \in Results :
                /\ val' = [val EXCEPT ![c] = r]
                /\ pc' = [pc EXCEPT ![c] = "cache_set"]
                /\ UNCHANGED err
         ELSE /\ err' = [err EXCEPT ![c] = out]
              /\ pc' = [pc EXCEPT ![c] = "exit"]
              /\ UNCHANGED val
    /\ UNCHANGED <<poolVars, op, attempt, holds, result, ncalls,
                   breakerVars, config, threadVars, historyVars, cacheVars, now>>

\* operation(), second part: self._cache.set(...); return results
CacheSet(c) ==
    /\ pc[c] = "cache_set"
    /\ cache_set(key[c], val[c])
    /\ pc' = [pc EXCEPT ![c] = "exit"]
    /\ UNCHANGED <<poolVars, op, attempt, holds, invoked, err, val, result, ncalls,
                   breakerVars, config, threadVars, historyVars, key, now>>

\* except Exception: self._cache.invalidate(...); raise
Invalidate(c) ==
    /\ pc[c] = "invalidate"
    /\ cache_invalidate(key[c])
    /\ Finish(c, Raise(err[c]))
    /\ UNCHANGED <<poolVars, op, attempt, holds, invoked, ncalls,
                   breakerVars, config, threadVars, historyVars, key, now>>

\* ---------------------------------------------------------------- systems
\* No bridge has been constructed: the module dictionaries are empty. The
\* ODBC bridge has connected one pool, which has created no connection.
InitModule ==
    registry = [k \in KindSet |-> None]

InitOdbc ==
    /\ odbc_pools = TRUE
    /\ odbc_pool = << >>
    /\ odbc_active = 0
    /\ conn = [c \in Callers |-> None]
    /\ created = 0

\* QueryCache.__init__ and CircuitBreaker.__init__ create their locks free.
Locks == {"cache", "breaker"}
InitLocks ==
    lock = [k \in Locks |-> None]

InitProcess ==
    /\ InitModule
    /\ InitOdbc
    /\ InitLocks

InitCallers ==
    /\ pc = [c \in Callers |-> "idle"]
    /\ op = [c \in Callers |-> "none"]
    /\ attempt = [c \in Callers |-> 0]
    /\ holds = [c \in Callers |-> 0]
    /\ invoked = [c \in Callers |-> 0]
    /\ err = [c \in Callers |-> "none"]
    /\ val = [c \in Callers |-> "none"]
    /\ result = [c \in Callers |-> NoResult]
    /\ local = [c \in Callers |-> NoLocals]
    /\ key = [c \in Callers |-> 1]
    /\ ncalls = 0

InitPool ==
    /\ available = max_connections
    /\ metrics = NewMetrics
    /\ healthy = TRUE
    /\ retry_base_delay = default_retry_base_delay
    /\ tally = [c \in Callers |-> NewTally]

InitCache ==
    /\ cache = << >>
    /\ hits = 0
    /\ misses = 0

InitBreakerState ==
    /\ state = CLOSED
    /\ failure_count = 0
    /\ success_count = 0
    /\ last_failure_time = None
    /\ consec_failures = 0
    /\ probe_successes = 0

\* The per-backend singletons as get_pool / get_breaker build them; the pool
\* caps its delay at the default or at a low value that the third retry
\* would exceed.
Init ==
    /\ InitPool
    /\ retry_max_delay \in {LowMaxDelay, default_retry_max_delay}
    /\ InitCallers
    /\ InitProcess
    /\ InitBreakerState
    /\ InitCache
    /\ max_size = 1
    /\ failure_threshold = default_failure_threshold
    /\ success_threshold = default_success_threshold
    /\ timeout_seconds = default_timeout_seconds
    /\ now = 0

\* A breaker built with any thresholds.
InitAnyBreaker ==
    /\ InitPool
    /\ retry_max_delay = default_retry_max_delay
    /\ InitCallers
    /\ InitProcess
    /\ InitBreakerState
    /\ InitCache
    /\ max_size = 1
    /\ failure_threshold \in 1..MaxThreshold
    /\ success_threshold \in 1..MaxThreshold
    /\ timeout_seconds \in 1..MaxTimeout
    /\ now = 0

NextPool ==
    \E c \in Callers :
        \/ CallExecute(c)
        \/ Acquire(c)
        \/ AcquireTimeout(c)
        \/ RunOperation(c)
        \/ RecordSuccess(c)
        \/ Finally(c)
        \/ ExceptTransient(c)
        \/ ExceptOther(c)
        \/ Wake(c)

SpecPool == Init /\ [][NextPool]_vars

\* The steps of a thread inside execute_with_retry. The scheduler runs every
\* thread again and again; acquire(timeout=connection_timeout) returns, with
\* or without a permit, when the timeout is over at the latest; the
\* operation is taken to terminate; time.sleep(delay) ends.
PoolStep(c) ==
    \/ Acquire(c)
    \/ AcquireTimeout(c)
    \/ RunOperation(c)
    \/ RecordSuccess(c)
    \/ Finally(c)
    \/ ExceptTransient(c)
    \/ ExceptOther(c)
    \/ Wake(c)

\* Calls come from two threads; retry_max_delay has its default.
InitPoolFair ==
    /\ Init
    /\ retry_max_delay = default_retry_max_delay

NextPoolFair ==
    \E c \in Callers :
        \/ (c <= 2 /\ CallExecute(c))
        \/ PoolStep(c)

SpecPoolFair ==
    /\ InitPoolFair
    /\ [][NextPoolFair]_vars
    /\ \A c \in Callers : WF_vars(PoolStep(c))

NextBreaker ==
    \/ Tick
    \/ \E c \in Callers :
         \/ CallGuarded(c)
         \/ Enter(c)
         \/ Body(c)
         \/ Exit(c)

SpecBreaker == InitAnyBreaker /\ [][NextBreaker]_vars


\* A breaker whose stats() is read while guarded calls go through it.
InitStats ==
    /\ InitPool
    /\ retry_max_delay = default_retry_max_delay
    /\ InitCallers
    /\ InitProcess
    /\ InitBreakerState
    /\ InitCache
    /\ max_size = 1
    /\ failure_threshold = 1
    /\ success_threshold = 1
    /\ timeout_seconds \in 1..MaxTimeout
    /\ now = 0

NextStats ==
    \/ Tick
    \/ \E c \in Callers :
         \/ (ncalls < MaxStats /\ CallGuarded(c))
         \/ Enter(c)
         \/ Body(c)
         \/ Exit(c)
         \/ CallStats(c)
         \/ Stats(c)

SpecStats == InitStats /\ [][NextStats]_vars


\* ------------------------------------ the breaker's methods, step by step
\* can_execute, record_success and record_failure called directly by
\* concurrent threads, each running as the code does: take self._lock, read
\* the fields, assign the new values, release the lock.
BreakerMethods == {"can_execute", "record_success", "record_failure"}

\* The fields of the breaker as a thread reads them.
Fields ==
    [state |-> state,
     failure_count |-> failure_count,
     success_count |-> success_count,
     last_failure_time |-> last_failure_time]

\* What can_execute assigns, and returns, from the fields f read at time t.
after_can_execute(f, t) ==
    IF f.state = OPEN /\ t - f.last_failure_time >= timeout_seconds
    THEN [f EXCEPT !.state = HALF_OPEN, !.success_count = 0]
    ELSE f
returned_by_can_execute(f, t) ==
    IF f.state = OPEN
    THEN t - f.last_failure_time >= timeout_seconds
    ELSE TRUE

\* What record_success assigns from the fields f.
after_record_success(f) ==
    IF f.state = HALF_OPEN
    THEN IF f.success_count + 1 >= success_threshold
         THEN [f EXCEPT !.success_count = @ + 1,
                        !.state = CLOSED,
                        !.failure_count = 0]
         ELSE [f EXCEPT !.success_count = @ + 1]
    ELSE IF f.state = CLOSED
    THEN [f EXCEPT !.failure_count = 0]
    ELSE f

\* What record_failure assigns from the fields f at time t.
after_record_failure(f, t) ==
    [f EXCEPT
       !.failure_count = @ + 1,
       !.last_failure_time = t,
       !.state = IF f.state = HALF_OPEN
                 THEN OPEN
                 ELSE IF f.state = CLOSED
                         /\ f.failure_count + 1 >= failure_threshold
                 THEN OPEN
                 ELSE f.state]

AfterMethod(o, f, t) ==
    IF o = "can_execute" THEN after_can_execute(f, t)
    ELSE IF o = "record_success" THEN after_record_success(f)
    ELSE after_record_failure(f, t)

\* A thread calls one of the three methods.
CallMethod(c) ==
    /\ MayCall(c)
    /\ ncalls < MaxGuards
    /\ ncalls' = ncalls + 1
    /\ \E o \in BreakerMethods : op' = [op EXCEPT ![c] = o]
    /\ pc' = [pc EXCEPT ![c] = "lock"]
    /\ local' = [local EXCEPT ![c] = NoLocals]
    /\ UNCHANGED <<attempt, holds, invoked, err, val, result>>
    /\ UNCHANGED <<poolVars, breakerVars, config, historyVars, cacheVars, now>>

\* The threads inside `with self._lock`.
InBreakerLock == {c \in Callers : pc[c] \in {"read", "write"}}

\* A lock that admits a thread while another thread is inside.
TakeLockUnguarded(c) ==
    /\ pc[c] = "lock"
    /\ pc' = [pc EXCEPT ![c] = "read"]
    /\ UNCHANGED <<op, attempt, holds, invoked, err, val, result, ncalls>>
    /\ UNCHANGED <<poolVars, breakerVars, config, threadVars, historyVars,
                   cacheVars, now>>

\* with self._lock: the thread gets the lock when no thread is inside.
TakeLock(c) ==
    /\ pc[c] = "lock"
    /\ InBreakerLock = {}
    /\ pc' = [pc EXCEPT ![c] = "read"]
    /\ UNCHANGED <<op, attempt, holds, invoked, err, val, result, ncalls>>
    /\ UNCHANGED <<poolVars, breakerVars, config, threadVars, historyVars,
                   cacheVars, now>>

\* The method reads the fields it tests and updates.
ReadFields(c) ==
    /\ pc[c] = "read"
    /\ local' = [local EXCEPT ![c] = [kind |-> "read", seen |-> Fields]]
    /\ pc' = [pc EXCEPT ![c] = "write"]
    /\ UNCHANGED <<op, attempt, holds, invoked, err, val, result, ncalls>>
    /\ UNCHANGED <<poolVars, breakerVars, config, historyVars, cacheVars, now>>

\* The method assigns the fields it changes, releases the lock and returns.
WriteFields(c) ==
    /\ pc[c] = "write"
    /\ LET f == local[c].seen
           g == AfterMethod(op[c], f, now)
       IN /\ state' = IF g.state # f.state THEN g.state ELSE state
          /\ failure_count' =
               IF g.failure_count # f.failure_count
               THEN g.failure_count ELSE failure_count
          /\ success_count' =
               IF g.success_count # f.success_count
               THEN g.success_count ELSE success_count
          /\ last_failure_time' =
               IF op[c] = "record_failure" THEN now ELSE last_failure_time
          /\ local' = [local EXCEPT ![c] =
                         [kind |-> "returned",
                          seen |-> f,
                          ret |-> IF op[c] = "can_execute"
                                  THEN returned_by_can_execute(f, now)
                                  ELSE TRUE]]
    /\ pc' = [pc EXCEPT ![c] = "idle"]
    /\ UNCHANGED <<op, attempt, holds, invoked, err, val, result, ncalls>>
    /\ UNCHANGED <<poolVars, config, historyVars, cacheVars, now>>

InitMethods ==
    /\ InitPool
    /\ retry_max_delay = default_retry_max_delay
    /\ InitCallers
    /\ InitProcess
    /\ InitBreakerState
    /\ InitCache
    /\ max_size = 1
    /\ failure_threshold = 1
    /\ success_threshold \in 1..MaxThreshold
    /\ timeout_seconds = 1
    /\ now = 0

NextMethods ==
    \/ Tick
    \/ \E c \in Callers :
         \/ CallMethod(c)
         \/ TakeLock(c)
         \/ ReadFields(c)
         \/ WriteFields(c)

SpecMethods == InitMethods /\ [][NextMethods]_vars


\* --------------------------------- the pool's metrics, statement by statement
\* execute_with_retry calls self._metrics.record_success / record_failure
\* without taking any lock, and each of them is two `+= 1` statements: the
\* counter is read, then the incremented value is stored.
OutcomeCounter(c) ==
    IF err[c] = "none" THEN "successful_requests" ELSE "failed_requests"

\* self.total_requests += 1, the read.
LoadTotal(c) ==
    /\ pc[c] \in {"record_success", "except"}
    /\ local' = [local EXCEPT ![c] =
                   [kind |-> "loaded", n |-> metrics.total_requests]]
    /\ pc' = [pc EXCEPT ![c] = "store_total"]
    /\ UNCHANGED <<poolVars, op, attempt, holds, invoked, err, val, result,
                   ncalls>>
    /\ UNCHANGED <<breakerVars, config, historyVars, cacheVars, now>>

\* self.total_requests += 1, the store.
StoreTotal(c) ==
    /\ pc[c] = "store_total"
    /\ metrics' = [metrics EXCEPT !.total_requests = local[c].n + 1]
    /\ pc' = [pc EXCEPT ![c] = "load_outcome"]
    /\ UNCHANGED <<available, healthy, tally, op, attempt, holds, invoked,
                   err, val, result, ncalls>>
    /\ UNCHANGED outsidePool

\* self.successful_requests += 1 or self.failed_requests += 1, the read.
LoadOutcome(c) ==
    /\ pc[c] = "load_outcome"
    /\ local' = [local EXCEPT ![c] =
                   [kind |-> "loaded", n |-> metrics[OutcomeCounter(c)]]]
    /\ pc' = [pc EXCEPT ![c] = "store_outcome"]
    /\ UNCHANGED <<poolVars, op, attempt, holds, invoked, err, val, result,
                   ncalls>>
    /\ UNCHANGED <<breakerVars, config, historyVars, cacheVars, now>>

\* The store of the second counter, and what execute_with_retry does next:
\* after record_success, _healthy = True and the return through finally;
\* after record_failure, the rest of the except clause.
StoreOutcome(c) ==
    /\ pc[c] = "store_outcome"
    /\ metrics' = [metrics EXCEPT ![OutcomeCounter(c)] = local[c].n + 1]
    /\ IF err[c] = "none"
       THEN /\ healthy' = TRUE
            /\ tally' = [tally EXCEPT ![c].succeeded = @ + 1]
            /\ pc' = [pc EXCEPT ![c] = "finally"]
            /\ UNCHANGED <<err, val, result>>
       ELSE IF IsTransient(err[c]) /\ HasRetryBudget(attempt[c])
       THEN /\ tally' = [tally EXCEPT
                           ![c].failed = @ + 1,
                           ![c].slept = Append(@, Delay(attempt[c]))]
            /\ pc' = [pc EXCEPT ![c] = "sleep"]
            /\ UNCHANGED <<healthy, err, val, result>>
       ELSE /\ tally' = [tally EXCEPT ![c].failed = @ + 1]
            /\ healthy' = IF IsTransient(err[c]) THEN FALSE ELSE healthy
            /\ PoolReturn(c)
    /\ UNCHANGED <<available, op, attempt, holds, invoked, ncalls>>
    /\ UNCHANGED outsidePool


\* The pool get_pool builds.
InitMetrics ==
    /\ Init
    /\ retry_max_delay = default_retry_max_delay

NextMetrics ==
    \E c \in Callers :
        \/ CallExecute(c)
        \/ Acquire(c)
        \/ AcquireTimeout(c)
        \/ RunOperation(c)
        \/ LoadTotal(c)
        \/ StoreTotal(c)
        \/ LoadOutcome(c)
        \/ StoreOutcome(c)
        \/ Finally(c)
        \/ Wake(c)

SpecMetrics == InitMetrics /\ [][NextMetrics]_vars

\* Searches by concurrent threads within one reading of the clock (no entry
\* expires and no cooldown ends while they run).
NextBridge ==
    \E c \in Callers :
         \/ CallSearch(c)
         \/ CacheGet(c)
         \/ Enter(c)
         \/ SearchOp(c)
         \/ CacheSet(c)
         \/ Exit(c)
         \/ Invalidate(c)

\* The bridge over a breaker that opens on the first failure and probes
\* after one time unit.
InitBridge ==
    /\ InitPool
    /\ retry_max_delay = default_retry_max_delay
    /\ InitCallers
    /\ InitProcess
    /\ InitBreakerState
    /\ InitCache
    /\ max_size = 1
    /\ failure_threshold = 1
    /\ success_threshold = 1
    /\ timeout_seconds = 1
    /\ now = 0

SpecBridge == InitBridge /\ [][NextBridge]_vars

\* Writes by concurrent threads: breaker guard, then execute_with_retry.
NextWrite ==
    \E c \in Callers :
         \/ CallAdd(c)
         \/ Enter(c)
         \/ Acquire(c)
         \/ AcquireTimeout(c)
         \/ RunOperation(c)
         \/ RecordSuccess(c)
         \/ Finally(c)
         \/ ExceptTransient(c)
         \/ ExceptOther(c)
         \/ Wake(c)
         \/ Exit(c)


\* Batch writes from every thread, next to the single writes of one thread.
NextBatch ==
    \E c \in Callers :
         \/ (c = 1 /\ CallAdd(c))
         \/ CallAddBatch(c)
         \/ Enter(c)
         \/ Acquire(c)
         \/ AcquireTimeout(c)
         \/ RunOperation(c)
         \/ BatchOperation(c)
         \/ RecordSuccess(c)
         \/ Finally(c)
         \/ ExceptTransient(c)
         \/ ExceptOther(c)
         \/ Wake(c)
         \/ Exit(c)

SpecBatch == InitBridge /\ [][NextBatch]_vars

\* The bridge after one search has missed and stored its results: one entry,
\* one miss counted, breaker still closed.
InitWrite ==
    /\ InitPool
    /\ retry_max_delay = default_retry_max_delay
    /\ InitCallers
    /\ InitProcess
    /\ InitBreakerState
    /\ max_size = 1
    /\ failure_threshold = 1
    /\ success_threshold = 1
    /\ timeout_seconds = 1
    /\ now = 0
    /\ cache = <<[key |-> 1, results |-> "r1", timestamp |-> 0]>>
    /\ hits = 0
    /\ misses = 1

SpecWrite == InitWrite /\ [][NextWrite]_vars

\* ------------------------------------------------------- QueryCache alone
\* Threads call get, set, invalidate and clear on one cache. Every body runs
\* inside `with self._lock`, so one thread at a time is past the lock. There
\* is one key more than the largest capacity, so a full cache can always
\* meet a new key.
CacheKeys == 1..(MaxSize + 1)

\* with self._lock: the thread is granted the lock.
Lock(c) ==
    /\ MayCall(c)
    /\ \A d \in Callers : pc[d] # "locked"
    /\ ncalls < MaxCacheOps
    /\ ncalls' = ncalls + 1
    /\ pc' = [pc EXCEPT ![c] = "locked"]
    /\ UNCHANGED <<poolVars, op, attempt, holds, invoked, err, val, result,
                   breakerVars, config, threadVars, historyVars, cacheVars, now>>

\* The return of method o, called with key k and (for set) results v; it
\* hands r to the caller and releases the lock.
Return(c, o, k, v, r) ==
    /\ pc' = [pc EXCEPT ![c] = "idle"]
    /\ op' = [op EXCEPT ![c] = o]
    /\ key' = [key EXCEPT ![c] = k]
    /\ val' = [val EXCEPT ![c] = v]
    /\ result' = [result EXCEPT ![c] = r]
    /\ UNCHANGED <<poolVars, attempt, holds, invoked, err, ncalls,
                   breakerVars, config, threadVars, historyVars, now>>

DoGet(c) ==
    /\ pc[c] = "locked"
    /\ \E k \in CacheKeys, ret \in Results \cup {Miss} :
         /\ cache_get(k, ret)
         /\ Return(c, "get", k, "none", Value(ret))

DoSet(c) ==
    /\ pc[c] = "locked"
    /\ \E k \in CacheKeys, r \in Results :
         /\ cache_set(k, r)
         /\ Return(c, "set", k, r, Value(Miss))

DoInvalidate(c) ==
    /\ pc[c] = "locked"
    /\ \E k \in CacheKeys :
         /\ cache_invalidate(k)
         /\ Return(c, "invalidate", k, "none", Value(Miss))

DoClear(c) ==
    /\ pc[c] = "locked"
    /\ cache_clear
    /\ Return(c, "clear", key[c], "none", Value(Miss))

\* A cache built with the largest capacity.
InitCacheAlone ==
    /\ InitPool
    /\ retry_max_delay = default_retry_max_delay
    /\ InitCallers
    /\ InitProcess
    /\ InitBreakerState
    /\ InitCache
    /\ max_size = MaxSize
    /\ failure_threshold = default_failure_threshold
    /\ success_threshold = default_success_threshold
    /\ timeout_seconds = default_timeout_seconds
    /\ now = 0

\* Time passes until an entry written at time 0 has outlived its TTL.
NextCache ==
    \/ (now <= ttl_seconds /\ Tick)
    \/ \E c \in Callers :
         \/ Lock(c)
         \/ DoGet(c)
         \/ DoSet(c)
         \/ DoInvalidate(c)
         \/ DoClear(c)

SpecCache == InitCacheAlone /\ [][NextCache]_vars

\* ------------------------------------------- QueryCache.stats(), no lock
\* stats() does not take self._lock; its statements read the counters one
\* after another while get calls of other threads go on.
CallCacheStats(c) ==
    /\ MayCall(c)
    /\ ncalls < MaxCacheOps
    /\ ncalls' = ncalls + 1
    /\ op' = [op EXCEPT ![c] = "stats"]
    /\ pc' = [pc EXCEPT ![c] = "stats_total"]
    /\ local' = [local EXCEPT ![c] = NoLocals]
    /\ UNCHANGED <<poolVars, attempt, holds, invoked, err, val, result,
                   breakerVars, config, historyVars, cacheVars, now>>

\* total = self._hits + self._misses
StatsTotal(c) ==
    /\ pc[c] = "stats_total"
    /\ local' = [local EXCEPT ![c] = [kind |-> "total", total |-> hits + misses]]
    /\ pc' = [pc EXCEPT ![c] = "stats_rate"]
    /\ UNCHANGED <<poolVars, op, attempt, holds, invoked, err, val, result,
                   ncalls, breakerVars, config, historyVars, cacheVars, now>>

\* hit_rate = self._hits / total if total > 0 else 0.0, kept as a fraction
StatsRate(c) ==
    /\ pc[c] = "stats_rate"
    /\ local' = [local EXCEPT ![c] =
                   [kind |-> "rate",
                    num |-> IF local[c].total > 0 THEN hits ELSE 0,
                    den |-> IF local[c].total > 0 THEN local[c].total ELSE 1]]
    /\ pc' = [pc EXCEPT ![c] = "stats_return"]
    /\ UNCHANGED <<poolVars, op, attempt, holds, invoked, err, val, result,
                   ncalls, breakerVars, config, historyVars, cacheVars, now>>

\* return {"size": ..., "hits": self._hits, "misses": self._misses,
\*         "hit_rate": hit_rate}
StatsReturn(c) ==
    /\ pc[c] = "stats_return"
    /\ local' = [local EXCEPT ![c] =
                   [kind |-> "cache_stats",
                    size |-> Len(cache),
                    max_size |-> max_size,
                    hits |-> hits,
                    misses |-> misses,
                    num |-> local[c].num,
                    den |-> local[c].den]]
    /\ pc' = [pc EXCEPT ![c] = "idle"]
    /\ UNCHANGED <<poolVars, op, attempt, holds, invoked, err, val, result,
                   ncalls, breakerVars, config, historyVars, cacheVars, now>>

NextCacheStats ==
    \/ NextCache
    \/ \E c \in Callers :
         \/ CallCacheStats(c)
         \/ StatsTotal(c)
         \/ StatsRate(c)
         \/ StatsReturn(c)

SpecCacheStats == InitCacheAlone /\ [][NextCacheStats]_vars

\* ------------------------------------- get_pool / get_cache / get_breaker
\* VectorDBBridge(backend): the constructor fetches the pool, the cache
\* (when enable_cache) and the breaker of the backend from the module
\* dictionaries. A getter is three statements without any lock: the test
\* `backend not in _pools`, the construction and store of a new instance,
\* and the read `_pools[backend]` it returns. All bridges here name the
\* same backend. An instance is named by the number of the constructor call
\* that built it.
NewBridge(n, e) ==
    [kind |-> "bridge", step |-> 1, new |-> n, enable_cache |-> e,
     got |-> [k \in KindSet |-> None]]

Getter(c) == Kinds[local[c].step]

CallInit(c) ==
    /\ pc[c] = "idle"
    /\ ncalls < MaxInits
    /\ \E e \in BOOLEAN :
         local' = [local EXCEPT ![c] = NewBridge(ncalls + 1, e)]
    /\ pc' = [pc EXCEPT ![c] = "get_check"]
    /\ op' = [op EXCEPT ![c] = "init"]
    /\ ncalls' = ncalls + 1
    /\ UNCHANGED <<poolVars, poolConfig, attempt, holds, invoked, err, val, result,
                   breakerVars, breakerConfig, historyVars, cacheVars, cacheConfig,
                   now, moduleVars, odbcVars, lockVars>>

\* if backend not in _pools:
CheckRegistry(c) ==
    /\ pc[c] = "get_check"
    /\ pc' = [pc EXCEPT ![c] = IF registry[Getter(c)] = None
                                THEN "get_store" ELSE "get_return"]
    /\ UNCHANGED <<poolVars, poolConfig, op, attempt, holds, invoked, err, val,
                   result, ncalls, local, breakerVars, breakerConfig, historyVars,
                   cacheVars, cacheConfig, now, moduleVars, odbcVars, lockVars>>

\* _pools[backend] = ConnectionPool(...)
StoreInstance(c) ==
    /\ pc[c] = "get_store"
    /\ registry' = [registry EXCEPT ![Getter(c)] = local[c].new]
    /\ pc' = [pc EXCEPT ![c] = "get_return"]
    /\ UNCHANGED <<poolVars, poolConfig, op, attempt, holds, invoked, err, val,
                   result, ncalls, local, breakerVars, breakerConfig, historyVars,
                   cacheVars, cacheConfig, now, odbcVars, lockVars>>

\* the getter after this one; the cache is skipped without enable_cache
NextStep(l) ==
    IF l.step = 1 /\ ~l.enable_cache THEN 3 ELSE l.step + 1

\* return _pools[backend], assigned to self._pool / _cache / _breaker
ReturnInstance(c) ==
    /\ pc[c] = "get_return"
    /\ local' = [local EXCEPT ![c] =
                   [local[c] EXCEPT !.got[Getter(c)] = registry[Getter(c)],
                                    !.step = NextStep(local[c])]]
    /\ pc' = [pc EXCEPT ![c] = IF NextStep(local[c]) > Len(Kinds)
                                THEN "idle" ELSE "get_check"]
    /\ UNCHANGED <<poolVars, poolConfig, op, attempt, holds, invoked, err, val,
                   result, ncalls, breakerVars, breakerConfig, historyVars,
                   cacheVars, cacheConfig, now, moduleVars, odbcVars, lockVars>>

NextSingletons ==
    \E c \in Callers :
        \/ CallInit(c)
        \/ CheckRegistry(c)
        \/ StoreInstance(c)
        \/ ReturnInstance(c)

SpecSingletons == Init /\ [][NextSingletons]_vars

\* ------------------------------------------- odbc_bridge.ConnectionPool
\* One pool of the ODBC bridge. A connection is named by the order of its
\* creation. get_connection and return_connection run under the pool's lock
\* and are one step each; PooledConnection.close is return_connection
\* followed by the assignment of its _closed flag, two steps. disconnect
\* holds the bridge's lock and the pool's lock for its whole body.
otherOdbc == <<poolVars, poolConfig, op, attempt, holds, invoked, err, val,
               local, breakerVars, breakerConfig, historyVars, cacheVars,
               cacheConfig, now, moduleVars, lockVars>>

HasConn(q, n) == \E i \in 1..Len(q) : q[i] = n

\* the pool's lock is held for good by a disconnect that waits for it again
InOdbcLock == \E c \in Callers : pc[c] = "blocked"

\* the wrappers in the idle list whose close() has not yet set _closed
Unmarked == {d \in Callers : pc[d] = "closing" /\ HasConn(odbc_pool, conn[d])}

PoolExhausted == Len(odbc_pool) = 0 /\ odbc_active >= max_pool_size

\* ConnectionPool.get_connection, the state it leaves behind
get_connection ==
    IF Len(odbc_pool) > 0
    THEN /\ odbc_pool' = SubSeq(odbc_pool, 1, Len(odbc_pool) - 1)
         /\ UNCHANGED <<odbc_active, created>>
    ELSE /\ odbc_active' = odbc_active + 1
         /\ created' = created + 1
         /\ UNCHANGED odbc_pool

\* the connection get_connection hands out
Acquired == IF Len(odbc_pool) > 0 THEN odbc_pool[Len(odbc_pool)] ELSE created + 1

\* ConnectionPool.return_connection(conn)
return_connection(n) ==
    /\ odbc_pool' = IF odbc_active > 0 THEN Append(odbc_pool, n) ELSE odbc_pool
    /\ UNCHANGED <<odbc_active, created>>

\* pool.get_connection() by a caller that keeps the connection open
GetConnection(c) ==
    /\ pc[c] = "idle"
    /\ conn[c] = None
    /\ ncalls < MaxOdbcCalls
    /\ ~InOdbcLock
    /\ ncalls' = ncalls + 1
    /\ IF PoolExhausted
       THEN /\ result' = [result EXCEPT ![c] = Raise("pool_exhausted")]
            /\ UNCHANGED <<odbc_pool, odbc_active, created, conn>>
       ELSE /\ get_connection
            /\ conn' = [conn EXCEPT ![c] = Acquired]
            /\ result' = [result EXCEPT ![c] = Value("connection")]
    /\ UNCHANGED <<pc, odbc_pools, otherOdbc>>

\* ODBCBridge.query / execute / fetch / ...: the test of pool_id and the
\* read of self._pools[pool_id]
CallQuery(c) ==
    /\ pc[c] = "idle"
    /\ conn[c] = None
    /\ ncalls < MaxOdbcCalls
    /\ ncalls' = ncalls + 1
    /\ IF odbc_pools
       THEN /\ pc' = [pc EXCEPT ![c] = "query"]
            /\ UNCHANGED result
       ELSE /\ result' = [result EXCEPT ![c] = Value("unknown_pool")]
            /\ UNCHANGED pc
    /\ UNCHANGED <<odbcVars, otherOdbc>>

\* `with pool.get_connection() as conn:` PooledConnection defines neither
\* __enter__ nor __exit__, so the statement raises once get_connection has
\* returned; the method returns the error and nothing releases the
\* connection.
QueryGet(c) ==
    /\ pc[c] = "query"
    /\ ~InOdbcLock
    /\ IF PoolExhausted
       THEN UNCHANGED <<odbc_pool, odbc_active, created>>
       ELSE get_connection
    /\ result' = [result EXCEPT ![c] = Value("error")]
    /\ pc' = [pc EXCEPT ![c] = "idle"]
    /\ UNCHANGED <<odbc_pools, conn, ncalls, otherOdbc>>

\* PooledConnection.close, as far as return_connection
Close(c) ==
    /\ pc[c] = "idle"
    /\ conn[c] # None
    /\ ~InOdbcLock
    /\ return_connection(conn[c])
    /\ pc' = [pc EXCEPT ![c] = "closing"]
    /\ UNCHANGED <<odbc_pools, conn, result, ncalls, otherOdbc>>

\* self._closed = True
MarkClosed(c) ==
    /\ pc[c] = "closing"
    /\ conn' = [conn EXCEPT ![c] = None]
    /\ pc' = [pc EXCEPT ![c] = "idle"]
    /\ UNCHANGED <<odbc_pools, odbc_pool, odbc_active, created, result, ncalls,
                   otherOdbc>>

\* ODBCBridge.disconnect(pool_id). conn.close() of an idle wrapper does
\* nothing once its _closed is set; before that it calls return_connection,
\* which waits for the pool's lock that disconnect itself holds.
Disconnect(c) ==
    /\ pc[c] = "idle"
    /\ ncalls < MaxOdbcCalls
    /\ ~InOdbcLock
    /\ ncalls' = ncalls + 1
    /\ IF ~odbc_pools
       THEN /\ result' = [result EXCEPT ![c] = Value("unknown_pool")]
            /\ UNCHANGED <<pc, odbc_pools, odbc_pool, odbc_active>>
       ELSE IF Unmarked # {}
       THEN /\ pc' = [pc EXCEPT ![c] = "blocked"]
            /\ UNCHANGED <<result, odbc_pools, odbc_pool, odbc_active>>
       ELSE /\ odbc_pool' = << >>
            /\ odbc_active' = 0
            /\ odbc_pools' = FALSE
            /\ result' = [result EXCEPT ![c] = Value("ok")]
            /\ UNCHANGED pc
    /\ UNCHANGED <<conn, created, otherOdbc>>

NextOdbc ==
    \E c \in Callers :
        \/ GetConnection(c)
        \/ CallQuery(c)
        \/ QueryGet(c)
        \/ Close(c)
        \/ MarkClosed(c)
        \/ Disconnect(c)

SpecOdbc == Init /\ [][NextOdbc]_vars

\* ------------------------------------------ the locks on the bridge's paths
\* search and add with the locks of the cache and of the breaker made
\* explicit. A method of the cache or of the breaker is `with self._lock:`
\* around its body: the thread takes the lock when it is free, runs the
\* body, and releases the lock on the way out of the method, before its
\* next statement. The pool's retry loop and the operation take no lock.
\* Searches come from two threads, adds from one of them.
LockOf(p) ==
    IF p \in {"cache_get", "cache_set", "invalidate"} THEN "cache"
    ELSE IF p \in {"enter", "exit"} THEN "breaker"
    ELSE "none"

HoldsNoLock(c) == \A k \in Locks : lock[k] # c

\* with self._lock: waits until the lock is free
AcquireLock(c) ==
    /\ LockOf(pc[c]) # "none"
    /\ HoldsNoLock(c)
    /\ lock[LockOf(pc[c])] = None
    /\ lock' = [lock EXCEPT ![LockOf(pc[c])] = c]
    /\ UNCHANGED <<poolVars, poolConfig, callerVars, threadVars, breakerVars,
                   breakerConfig, historyVars, cacheVars, cacheConfig, now,
                   moduleVars, odbcVars>>

\* A release that lets go of the cache's lock only.
ReleaseLockCacheOnly(c) ==
    /\ lock["cache"] = c
    /\ LockOf(pc[c]) # "cache"
    /\ lock' = [lock EXCEPT !["cache"] = None]
    /\ UNCHANGED <<poolVars, poolConfig, callerVars, threadVars, breakerVars,
                   breakerConfig, historyVars, cacheVars, cacheConfig, now,
                   moduleVars, odbcVars>>

\* the end of the with block: the method's body has run
ReleaseLock(c) ==
    /\ \E k \in Locks :
         /\ lock[k] = c
         /\ LockOf(pc[c]) # k
         /\ lock' = [lock EXCEPT ![k] = None]
    /\ UNCHANGED <<poolVars, poolConfig, callerVars, threadVars, breakerVars,
                   breakerConfig, historyVars, cacheVars, cacheConfig, now,
                   moduleVars, odbcVars>>

\* the body of the locked method thread c is in
LockedBody(c) ==
    \/ (lock["cache"] = c /\ CacheGet(c))
    \/ (lock["cache"] = c /\ CacheSet(c))
    \/ (lock["cache"] = c /\ Invalidate(c))
    \/ (lock["breaker"] = c /\ Enter(c))
    \/ (lock["breaker"] = c /\ Exit(c))

NextLocks ==
    \E c \in Callers :
        \/ (c <= 2 /\ ncalls < MaxLockCalls /\ HoldsNoLock(c) /\ CallSearch(c))
        \/ (c = 1 /\ ncalls < MaxLockCalls /\ HoldsNoLock(c) /\ CallAdd(c))
        \/ AcquireLock(c)
        \/ LockedBody(c)
        \/ ReleaseLock(c)
        \/ (HoldsNoLock(c) /\ SearchOp(c))
        \/ (HoldsNoLock(c) /\ PoolStep(c))

SpecLocks == InitBridge /\ [][NextLocks]_vars

\* ================================================================= claims
RECURSIVE SumHolds(_)
SumHolds(S) ==
    IF S = {} THEN 0
    ELSE LET c == CHOOSE x \in S : TRUE IN holds[c] + SumHolds(S \ {c})

Running == {c \in Callers : pc[c] = "run"}

\* C1: the available-permit count is always within 0..max_connections and at
\* most max_connections operations run inside execute_with_retry at once.
C1_PermitsInRange ==
    /\ available \in 0..max_connections
    /\ Cardinality(Running) <= max_connections

\* Every permit is taken by a running operation and another caller waits.
C1_Witness ==
    /\ available = 0
    /\ Cardinality(Running) = max_connections
    /\ \E c \in Callers : pc[c] = "acquire"

\* C2: one call of execute_with_retry invokes the operation at most
\* max_retries + 1 times.
C2_AtMostMaxRetriesPlusOne ==
    \A c \in Callers : invoked[c] <= max_retries + 1

\* A call that used its whole budget on transient failures of the operation.
C2_Witness ==
    \E c \in Callers :
        /\ invoked[c] = max_retries + 1
        /\ pc[c] = "idle"
        /\ result[c] = Raise("transient")

\* C3: a permit is held only from admission until the finally clause that
\* follows the operation (never in the handler or the backoff sleep), every
\* acquired permit is given back exactly once, and with no call in progress
\* all permits are available.
C3_PermitReleasedOnce ==
    /\ \A c \in Callers :
         holds[c] = IF pc[c] \in {"run", "record_success", "finally"} THEN 1 ELSE 0
    /\ available + SumHolds(Callers) = max_connections
    /\ (\A c \in Callers : pc[c] = "idle") => available = max_connections

\* A caller sleeps in backoff after its operation raised; all permits are free.
C3_Witness ==
    \E c \in Callers :
        /\ pc[c] = "sleep"
        /\ invoked[c] >= 1
        /\ available = max_connections

\* Steps of caller c that record an outcome on the breaker (__exit__).
RecordsFailure(c) == pc[c] = "exit" /\ err[c] # "none" /\ pc'[c] # "exit"
RecordsSuccess(c) == pc[c] = "exit" /\ err[c] = "none" /\ pc'[c] # "exit"
\* Steps of caller c through __enter__.
EntersGuard(c) == pc[c] = "enter" /\ pc'[c] # "enter"
Denied(c) == pc'[c] = "idle" /\ result'[c] = Raise("breaker_open")

\* C4: a failure recorded while Closed leaves the breaker Closed when it is
\* not yet the failure_threshold-th consecutive failure (no success between),
\* and moves it to Open when it is that one.
C4_OpensOnNthFailure ==
    [][\A c \in Callers :
         (RecordsFailure(c) /\ state = CLOSED) =>
            \/ consec_failures' < failure_threshold /\ state' = CLOSED
            \/ consec_failures' = failure_threshold /\ state' = OPEN]_vars

\* The breaker opened on the second of two consecutive failures.
C4_Witness ==
    /\ failure_threshold = 2
    /\ state = OPEN
    /\ consec_failures = 2
    /\ failure_count = 2
    /\ probe_successes = 0
    /\ success_count = 0

\* C5: a guard entry made while Open is rejected and leaves the breaker Open
\* as long as less than timeout_seconds have passed since the last recorded
\* failure; otherwise it is permitted and moves the breaker to HalfOpen.
C5_OpenRejectsUntilCooldown ==
    [][\A c \in Callers :
         (EntersGuard(c) /\ state = OPEN) =>
            IF now - last_failure_time < timeout_seconds
            THEN Denied(c) /\ state' = OPEN
            ELSE ~Denied(c) /\ pc'[c] # "idle" /\ state' = HALF_OPEN]_vars

\* One caller was rejected during the cooldown, another was let in after it.
C5_Witness ==
    \E c, d \in Callers :
        /\ result[c] = Raise("breaker_open")
        /\ pc[c] = "idle"
        /\ pc[d] = "body"
        /\ state = HALF_OPEN
        /\ now - last_failure_time >= timeout_seconds

\* C6: a failure recorded in HalfOpen moves the breaker to Open, whatever
\* success_count is.
C6_HalfOpenFailureOpens ==
    [][\A c \in Callers :
         (RecordsFailure(c) /\ state = HALF_OPEN) => state' = OPEN]_vars

\* Open again after a probe failed that followed a successful probe.
C6_Witness ==
    /\ state = OPEN
    /\ success_count >= 1
    /\ success_count < success_threshold
    /\ consec_failures = 1

\* C7: a success recorded in HalfOpen closes the breaker and zeroes
\* failure_count when it is the success_threshold-th success of this HalfOpen
\* episode, and leaves the breaker HalfOpen when it is an earlier one.
C7_HalfOpenClosesOnThreshold ==
    [][\A c \in Callers :
         (RecordsSuccess(c) /\ state = HALF_OPEN) =>
            \/ /\ probe_successes' < success_threshold
               /\ state' = HALF_OPEN
            \/ /\ probe_successes' = success_threshold
               /\ state' = CLOSED
               /\ failure_count' = 0]_vars

\* Closed again after two successful probes.
C7_Witness ==
    /\ success_threshold = 2
    /\ state = CLOSED
    /\ probe_successes = 2
    /\ failure_count = 0
    /\ last_failure_time # None

\* C8: a search that missed the cache runs the backend operation inside the
\* pool's retry executor: only while holding a permit, with every attempt
\* recorded in the pool metrics, and a transient failure is raised to the
\* caller only when the retry budget is used up.
C8_ReadGoesThroughPool ==
    \A c \in Callers :
        /\ pc[c] = "search_op" => holds[c] >= 1
        /\ op[c] = "search" => metrics.total_requests >= invoked[c]
        /\ (op[c] = "search" /\ result[c] = Raise("transient")) =>
              invoked[c] = max_retries + 1

\* C9: a search whose cache lookup finds an unexpired entry returns that
\* entry's value in the same step, and the step leaves breaker state and
\* counters, available permits, the healthy flag and pool metrics unchanged
\* and invokes nothing.
C9_HitSkipsBreakerAndPool ==
    [][\A c \in Callers :
         (pc[c] = "cache_get" /\ pc'[c] # "cache_get" /\ Has(key[c])
            /\ now - cache[IndexOf(key[c])].timestamp < ttl_seconds) =>
            /\ pc'[c] = "idle"
            /\ result'[c] = Value(cache[IndexOf(key[c])].results)
            /\ invoked'[c] = 0
            /\ UNCHANGED <<breakerVars, historyVars, poolVars, holds>>]_vars

\* A search was answered from the cache while the breaker was Open.
C9_Witness ==
    \E c \in Callers :
        /\ op[c] = "search"
        /\ pc[c] = "idle"
        /\ result[c].kind = "value"
        /\ invoked[c] = 0
        /\ hits >= 1
        /\ state = OPEN

\* C10: in a search, an exception raised inside the breaker guard or by the
\* guard's entry goes to the except clause and nowhere else; the call then
\* ends by raising that same exception, and at that moment the cache holds no
\* entry under the search's key.
C10_FailureInvalidatesAndReraises ==
    [][\A c \in Callers :
         op[c] = "search" =>
            /\ (pc[c] = "search_op" /\ err'[c] # "none") => pc'[c] = "exit"
            /\ (pc[c] = "enter" /\ pc'[c] \notin {"enter", "search_op"}) =>
                  pc'[c] = "invalidate" /\ err'[c] = "breaker_open"
            /\ err[c] # "none" =>
                  \/ pc'[c] = pc[c] /\ err'[c] = err[c]
                  \/ /\ pc[c] = "exit"
                     /\ pc'[c] = "invalidate"
                     /\ err'[c] = err[c]
                  \/ /\ pc[c] = "invalidate"
                     /\ pc'[c] = "idle"
                     /\ result'[c] = Raise(err[c])
                     /\ ~HasIn(cache', key[c])]_vars

\* One search raised the operation's error, another the breaker's rejection;
\* neither key is cached.
C10_Witness ==
    \E c, d \in Callers :
        /\ op[c] = "search" /\ pc[c] = "idle"
        /\ op[d] = "search" /\ pc[d] = "idle"
        /\ result[c] = Raise("breaker_open")
        /\ result[d] \in {Raise("transient"), Raise("permanent")}
        /\ ~Has(key[c])
        /\ ~Has(key[d])

\* C11: a search that missed and whose operation returned r goes on to
\* cache.set, which stores r under the search's key with the current time;
\* the search then completes with r. A later get of a key whose entry is
\* still held and within the TTL is a hit: it returns the stored results,
\* counts one hit, and the operation is not invoked.
C11_MissFillsThenHit ==
    [][\A c \in Callers :
        /\ (pc[c] = "search_op" /\ pc'[c] # "search_op" /\ err'[c] = "none") =>
              pc'[c] = "cache_set"
        /\ (pc[c] = "cache_set" /\ pc'[c] # "cache_set") =>
              /\ pc'[c] = "exit"
              /\ err'[c] = "none"
              /\ HasIn(cache', key[c])
              /\ \E i \in 1..Len(cache') :
                    cache'[i] = [key |-> key[c], results |-> val[c],
                                 timestamp |-> now]
        /\ (op[c] = "search" /\ pc[c] = "exit" /\ err[c] = "none"
               /\ pc'[c] = "idle") =>
              result'[c] = Value(val[c])
        /\ (pc[c] = "cache_get" /\ pc'[c] # "cache_get" /\ Has(key[c])
               /\ now - cache[IndexOf(key[c])].timestamp < ttl_seconds) =>
              /\ pc'[c] = "idle"
              /\ result'[c] = Value(cache[IndexOf(key[c])].results)
              /\ invoked'[c] = 0
              /\ hits' = hits + 1
              /\ cache' = cache
      ]_vars

\* One search missed, ran the operation once and returned r; another search
\* of the same key returned the same r without running the operation, and
\* the entry is still held.
C11_Witness ==
    \E c, d \in Callers :
        /\ c # d
        /\ op[c] = "search" /\ pc[c] = "idle"
        /\ op[d] = "search" /\ pc[d] = "idle"
        /\ key[c] = key[d]
        /\ invoked[c] = 1 /\ result[c].kind = "value"
        /\ invoked[d] = 0 /\ result[d] = result[c]
        /\ hits >= 1
        /\ Has(key[c])
        /\ cache[IndexOf(key[c])].results = result[c].val

\* C12: every step of an add leaves the cache entries and the hit and miss
\* counters as they were, and never stands at a cache operation; the add
\* enters the retry executor only from an admitted breaker guard (or from a
\* retry's sleep), and runs the operation only from an acquired permit.
C12_WriteLeavesCacheAlone ==
    [][\A c \in Callers :
        (op'[c] = "add" /\ pc'[c] # pc[c]) =>
          /\ cache' = cache
          /\ hits' = hits
          /\ misses' = misses
          /\ pc'[c] \notin {"cache_get", "search_op", "cache_set", "invalidate"}
          /\ (pc[c] = "idle") => pc'[c] = "enter"
          /\ (pc'[c] = "acquire") => pc[c] \in {"enter", "sleep"}
          /\ (pc'[c] = "run") => (pc[c] = "acquire" /\ holds'[c] = 1)
      ]_vars

\* A cache holding an entry, one add that returned and one add that raised.
C12_Witness ==
    \E c, d \in Callers :
        /\ op[c] = "add" /\ pc[c] = "idle" /\ result[c].kind = "value"
        /\ op[d] = "add" /\ pc[d] = "idle" /\ result[d].kind = "raise"
        /\ invoked[c] >= 1
        /\ Len(cache) = 1
        /\ misses = 1

\* Steps of the cache alone: thread c returns from get / from set.
GetReturns(c) == pc[c] = "locked" /\ pc'[c] = "idle" /\ op'[c] = "get"
SetReturns(c) == pc[c] = "locked" /\ pc'[c] = "idle" /\ op'[c] = "set"

\* C13: whatever get, set, invalidate and clear calls have run, in whatever
\* order the lock admitted them, the cache holds at most max_size entries.
C13_SizeWithinCapacity == Len(cache) <= max_size

\* A cache emptied by clear and filled up to its capacity again by sets.
C13_Witness ==
    \E c, d \in Callers :
        /\ op[c] = "set" /\ pc[c] = "idle"
        /\ op[d] = "clear" /\ pc[d] = "idle"
        /\ max_size >= 2
        /\ Len(cache) = max_size

\* C14: a set of a key the cache does not hold, into a cache holding
\* max_size entries, removes exactly one entry, one whose timestamp no other
\* entry undercuts, keeps every other entry as it was, and appends the new
\* entry, so max_size entries are held afterwards. A get that hits leaves
\* the entries, timestamps included, as they were, so reading an entry does
\* not protect it.
C14_EvictsOldest ==
    [][\A c \in Callers :
        /\ (SetReturns(c) /\ ~Has(key'[c]) /\ Len(cache) = max_size) =>
              /\ Len(cache') = max_size
              /\ cache'[Len(cache')] =
                    [key |-> key'[c], results |-> val'[c], timestamp |-> now]
              /\ \E i \in 1..Len(cache) :
                    /\ \A j \in 1..Len(cache) :
                          cache[i].timestamp <= cache[j].timestamp
                    /\ ~HasIn(cache', cache[i].key)
                    /\ \A j \in 1..Len(cache) :
                          j # i => \E m \in 1..Len(cache') : cache'[m] = cache[j]
        /\ (GetReturns(c) /\ result'[c] # Value(Miss)) => cache' = cache
      ]_vars

\* Three sets of three keys into a cache of capacity two: the key set first
\* is gone, the two set later are held.
C14_Witness ==
    \E c, d \in Callers :
        /\ c # d
        /\ pc[c] = "idle" /\ pc[d] = "idle"
        /\ op[d] = "set" /\ ~Has(key[d])
        /\ op[c] = "set" /\ Has(key[c])
        /\ ncalls = 3
        /\ max_size = 2
        /\ Len(cache) = 2
        /\ cache[1].timestamp < cache[2].timestamp

OneFailureSample ==
    /\ metrics'.failed_requests = metrics.failed_requests + 1
    /\ metrics'.total_requests = metrics.total_requests + 1
    /\ metrics'.successful_requests = metrics.successful_requests

\* min(retry_base_delay * 2^n, retry_max_delay), in tenths of a second.
BackoffOf(n) ==
    IF retry_base_delay * (2 ^ n) <= retry_max_delay
    THEN retry_base_delay * (2 ^ n)
    ELSE retry_max_delay

\* C17: an attempt leaves the admission wait with an error only when no
\* permit is free; the error is the pool-exhausted timeout, the operation
\* has not been invoked and no permit has moved. Its handler records one
\* failure sample and then, as for a transient error of the operation,
\* sleeps before the next attempt while attempt < max_retries and otherwise
\* raises the error to the caller.
C17_ExhaustedPoolIsRetried ==
    [][\A c \in Callers :
        /\ (pc[c] = "acquire" /\ pc'[c] = "except") =>
              /\ available = 0
              /\ err'[c] = "pool_exhausted"
              /\ invoked'[c] = invoked[c]
              /\ available' = available
              /\ holds' = holds
              /\ metrics' = metrics
        /\ (pc[c] = "except" /\ err[c] = "pool_exhausted"
               /\ pc'[c] # "except") =>
              /\ OneFailureSample
              /\ tally'[c].failed = tally[c].failed + 1
              /\ invoked'[c] = invoked[c]
              /\ available' = available
              /\ holds' = holds
              /\ IF attempt[c] < max_retries
                 THEN /\ pc'[c] = "sleep"
                      /\ Len(tally'[c].slept) = Len(tally[c].slept) + 1
                 ELSE /\ pc'[c] = "idle"
                      /\ result'[c] = Raise("pool_exhausted")
        /\ (pc[c] = "sleep" /\ err[c] = "pool_exhausted"
               /\ pc'[c] # "sleep") =>
              /\ pc'[c] = "acquire"
              /\ attempt'[c] = attempt[c] + 1
      ]_vars

\* A call that never got a permit: every one of its max_retries + 1
\* attempts timed out at admission, the operation was never invoked, and
\* the call raised the pool-exhausted error.
C17_Witness ==
    \E c \in Callers :
        /\ op[c] = "execute" /\ pc[c] = "idle"
        /\ result[c] = Raise("pool_exhausted")
        /\ invoked[c] = 0
        /\ attempt[c] = max_retries
        /\ tally[c].failed = max_retries + 1
        /\ Len(tally[c].slept) = max_retries

\* C18: when the operation raises an error that is not transient, the
\* permit is released without any sample, and the handler records exactly
\* one failure sample and raises that error to the caller from the same
\* attempt: the loop variable does not advance, the operation is not
\* invoked again, and nothing is slept.
C18_PermanentErrorPropagates ==
    [][\A c \in Callers :
        /\ (pc[c] = "finally" /\ err[c] = "permanent"
               /\ pc'[c] # "finally") =>
              /\ pc'[c] = "except"
              /\ metrics' = metrics
        /\ (pc[c] = "except" /\ err[c] = "permanent"
               /\ pc'[c] # "except") =>
              /\ pc'[c] = "idle"
              /\ result'[c] = Raise("permanent")
              /\ OneFailureSample
              /\ tally'[c].failed = tally[c].failed + 1
              /\ tally'[c].slept = tally[c].slept
              /\ attempt'[c] = attempt[c]
              /\ invoked'[c] = invoked[c]
      ]_vars

\* A call whose first attempt failed transiently and whose second attempt
\* raised a permanent error: two invocations, two failure samples, the one
\* sleep between them, and the permanent error raised.
C18_Witness ==
    \E c \in Callers :
        /\ op[c] = "execute" /\ pc[c] = "idle"
        /\ result[c] = Raise("permanent")
        /\ attempt[c] = 1
        /\ invoked[c] = 2
        /\ tally[c].failed = 2
        /\ Len(tally[c].slept) = 1

\* C19: the handler of a transient failure of attempt n sleeps exactly
\* min(retry_base_delay * 2^n, retry_max_delay) when n < max_retries, and
\* the sleep is followed by attempt n + 1; when n = max_retries it sleeps
\* nothing and raises that attempt's error to the caller.
C19_BackoffDelay ==
    [][\A c \in Callers :
        /\ (pc[c] = "except" /\ err[c] \in {"transient", "pool_exhausted"}
               /\ pc'[c] # "except") =>
              IF attempt[c] < max_retries
              THEN /\ pc'[c] = "sleep"
                   /\ tally'[c].slept =
                        Append(tally[c].slept, BackoffOf(attempt[c]))
              ELSE /\ attempt[c] = max_retries
                   /\ pc'[c] = "idle"
                   /\ result'[c] = Raise(err[c])
                   /\ tally'[c].slept = tally[c].slept
        /\ (pc[c] = "sleep" /\ pc'[c] # "sleep") =>
              /\ pc'[c] = "acquire"
              /\ attempt'[c] = attempt[c] + 1
              /\ tally'[c].slept = tally[c].slept
      ]_vars

\* A call whose every attempt failed transiently under the low cap: it
\* slept 1, 2 and then the cap instead of 4, and raised after the last
\* attempt without a fourth sleep.
C19_Witness ==
    \E c \in Callers :
        /\ op[c] = "execute" /\ pc[c] = "idle"
        /\ result[c] = Raise("transient")
        /\ attempt[c] = max_retries
        /\ invoked[c] = max_retries + 1
        /\ retry_max_delay = LowMaxDelay
        /\ tally[c].slept = <<1, 2, LowMaxDelay>>

\* C20: a call that returns does so with the result of its last attempt's
\* operation; if that attempt is number k (from 0), then k <= max_retries
\* and the call has recorded exactly k failure samples and exactly one
\* success sample and has slept exactly k times, the i-th time for
\* min(retry_base_delay * 2^(i-1), retry_max_delay), and not after the last
\* attempt.
C20_SucceedsAfterKFailures ==
    [][\A c \in Callers :
        (op[c] = "execute" /\ pc[c] = "finally" /\ err[c] = "none"
           /\ pc'[c] # "finally") =>
          LET k == attempt[c] IN
          /\ pc'[c] = "idle"
          /\ result'[c] = Value(val[c])
          /\ val[c] \in Results
          /\ k <= max_retries
          /\ invoked[c] <= k + 1
          /\ tally'[c].failed = k
          /\ tally'[c].succeeded = 1
          /\ Len(tally'[c].slept) = k
          /\ \A i \in 1..k : tally'[c].slept[i] = BackoffOf(i - 1)
      ]_vars

\* The operation failed transiently twice and then succeeded, under the
\* default cap: three invocations, two failure samples, one success sample,
\* sleeps of 0.1 s and 0.2 s.
C20_Witness ==
    \E c \in Callers :
        /\ op[c] = "execute" /\ pc[c] = "idle"
        /\ result[c].kind = "value"
        /\ attempt[c] = 2
        /\ invoked[c] = 3
        /\ retry_max_delay = default_retry_max_delay
        /\ tally[c] = [failed |-> 2, succeeded |-> 1, slept |-> <<1, 2>>]

\* Steps of caller c in execute_with_retry: the handler step that finds the
\* retry budget used up on a transient error, and the step that records a
\* successful attempt.
Exhausts(c) ==
    /\ pc[c] = "except"
    /\ pc'[c] # "except"
    /\ IsTransient(err[c])
    /\ ~HasRetryBudget(attempt[c])
SucceedsOnPool(c) == pc[c] = "record_success" /\ pc'[c] # "record_success"

\* C21: the healthy flag turns false in exactly the steps in which a call
\* uses up its retry budget on a transient failure, and turns true again in
\* exactly the steps in which some caller records a successful attempt; while
\* the flag is false both is_healthy() and health_check() report unhealthy.
C21_HealthyFlag ==
    [][/\ (healthy /\ ~healthy') => \E c \in Callers : Exhausts(c)
       /\ \A c \in Callers : Exhausts(c) => ~healthy'
       /\ (~healthy /\ healthy') => \E c \in Callers : SucceedsOnPool(c)
       /\ \A c \in Callers : SucceedsOnPool(c) => healthy'
       /\ ~healthy' => (~is_healthy' /\ ~health_check'.healthy)]_vars

\* One caller used up its budget, then another caller succeeded: the flag is
\* true again (is_healthy() still answers false, on the success rate).
C21_Witness ==
    \E c, d \in Callers :
        /\ c # d
        /\ pc[c] = "idle" /\ pc[d] = "idle"
        /\ result[c].kind = "raise"
        /\ tally[c].failed = max_retries + 1
        /\ result[d].kind = "value"
        /\ healthy
        /\ health_check.healthy
        /\ ~is_healthy

\* C22: a guard entry made while the breaker is Open and the cooldown has
\* not elapsed raises Breaker-Open to the caller in that step, with the
\* operation never invoked and with state, failure_count, success_count and
\* the last-failure timestamp left as they were.
C22_DeniedEntryChangesNothing ==
    [][\A c \in Callers :
         (EntersGuard(c) /\ op[c] = "guard" /\ state = OPEN /\ ~CooldownElapsed) =>
            /\ pc'[c] = "idle"
            /\ result'[c] = Raise("breaker_open")
            /\ invoked'[c] = 0
            /\ state' = state
            /\ failure_count' = failure_count
            /\ success_count' = success_count
            /\ last_failure_time' = last_failure_time]_vars

\* A caller was turned away by a breaker that had opened on its
\* failure_threshold-th failure; the counters still show exactly that.
C22_Witness ==
    \E c \in Callers :
        /\ pc[c] = "idle"
        /\ op[c] = "guard"
        /\ result[c] = Raise("breaker_open")
        /\ invoked[c] = 0
        /\ state = OPEN
        /\ failure_threshold = 2
        /\ failure_count = 2
        /\ consec_failures = 2
        /\ success_count = 0
        /\ now - last_failure_time < timeout_seconds

\* C24: a success recorded while Closed leaves failure_count at 0; every
\* step that takes the breaker into HalfOpen leaves success_count at 0; and
\* while the breaker is HalfOpen success_count is the number of successes
\* recorded in the present HalfOpen episode, so that closing takes
\* success_threshold successes of this episode.
C24_CountersResetOnEntry ==
    [][/\ \A c \in Callers :
            (RecordsSuccess(c) /\ state = CLOSED) => failure_count' = 0
       /\ (state # HALF_OPEN /\ state' = HALF_OPEN) => success_count' = 0
       /\ state' = HALF_OPEN => success_count' = probe_successes'
       /\ (state = HALF_OPEN /\ state' = CLOSED) =>
             probe_successes' >= success_threshold]_vars

\* A second HalfOpen episode begins with success_count 0, after an episode
\* in which one probe succeeded and the next one failed.
C24_Witness ==
    /\ state = HALF_OPEN
    /\ success_count = 0
    /\ probe_successes = 0
    /\ success_threshold = 2
    /\ failure_threshold = 1
    /\ failure_count = 2
    /\ consec_failures = 1

\* The step in which stats() returns to caller c.
StatsReturns(c) == pc[c] = "stats" /\ pc'[c] = "idle"

\* C23: the retry-after carried by a Breaker-Open rejection, and the one
\* stats() reports, is 0 when no failure has been recorded, and otherwise
\* timeout_seconds minus the time since the last recorded failure when that
\* is positive, and 0 when it is not: it is never negative.
C23_RetryAfter ==
    [][\A c \in Callers :
         /\ (EntersGuard(c) /\ Denied(c)) =>
               /\ local'[c].kind = "breaker_open"
               /\ last_failure_time # None
               /\ local'[c].retry_after =
                     timeout_seconds - (now - last_failure_time)
               /\ local'[c].retry_after >= 0
         /\ StatsReturns(c) =>
               /\ local'[c].retry_after_seconds >= 0
               /\ last_failure_time = None =>
                     local'[c].retry_after_seconds = 0
               /\ (last_failure_time # None
                     /\ now - last_failure_time <= timeout_seconds) =>
                     local'[c].retry_after_seconds =
                        timeout_seconds - (now - last_failure_time)
               /\ (last_failure_time # None
                     /\ now - last_failure_time > timeout_seconds) =>
                     local'[c].retry_after_seconds = 0]_vars

\* stats() was read before any failure, a caller was rejected with time
\* left, and stats() was read again after the cooldown had run out.
C23_Witness ==
    \E c, d \in Callers :
        /\ c # d
        /\ local[c].kind = "breaker_open"
        /\ local[c].retry_after = 2
        /\ local[d].kind = "stats"
        /\ local[d].state = OPEN
        /\ local[d].retry_after_seconds = 0
        /\ now - last_failure_time > timeout_seconds

\* The step in which a method called by c assigns and returns.
Commits(c, o) == pc[c] = "write" /\ pc'[c] = "idle" /\ op[c] = o

\* C25: with concurrent callers, at most one thread is inside a breaker
\* method at a time, and the step in which a call assigns its fields changes
\* state, failure_count, success_count and the last-failure timestamp as the
\* whole method run alone on the current fields would: the calls take effect
\* one after another in the order of these steps, and no update is lost.
C25_CallsTakeEffectAtomically ==
    [][/\ Cardinality({c \in Callers : pc'[c] \in {"read", "write"}}) <= 1
       /\ \A c \in Callers :
            /\ Commits(c, "can_execute") => can_execute(local'[c].ret)
            /\ Commits(c, "record_success") => record_success
            /\ Commits(c, "record_failure") => record_failure]_vars

\* Two threads called record_failure together; the second one got the lock
\* after the first had returned and read the first one's count.
C25_Witness ==
    \E c, d \in Callers :
        /\ c # d
        /\ op[c] = "record_failure" /\ op[d] = "record_failure"
        /\ ncalls = 2
        /\ pc[c] = "idle"
        /\ local[c].kind = "returned"
        /\ pc[d] = "write"
        /\ local[d].seen.failure_count = 1
        /\ failure_count = 1

\* Every caller that has called has made one call, so that the tallies of
\* the callers cover every attempt made on the pool.
RECURSIVE SumAttempts(_)
SumAttempts(S) ==
    IF S = {} THEN 0
    ELSE LET c == CHOOSE x \in S : TRUE
         IN tally[c].failed + tally[c].succeeded + SumAttempts(S \ {c})
OneCallEach == ncalls = Cardinality({c \in Callers : op[c] # "none"})

\* C26: once all execute_with_retry calls on the pool have completed,
\* total_requests = successful_requests + failed_requests = the number of
\* attempts made, whatever the interleaving of the calls was.
C26_MetricsCountEveryAttempt ==
    ((\A c \in Callers : pc[c] = "idle") /\ OneCallEach) =>
        /\ metrics.total_requests
             = metrics.successful_requests + metrics.failed_requests
        /\ metrics.total_requests = SumAttempts(Callers)

EntriesFor(q, k) == {i \in 1..Len(q) : q[i].key = k}

\* C28: a search whose lookup misses goes on to the breaker guard whether or
\* not another search of the same key is in flight, and invokes the
\* operation once admitted; every search whose operation returned writes the
\* cache, and after its write the cache holds one entry for the key, with
\* the value of this write - also when another search had written the key
\* before.
C28_BothRunLastWriteWins ==
    [][\A c \in Callers :
         /\ (pc[c] = "cache_get" /\ pc'[c] # "cache_get" /\ misses' = misses + 1) =>
               pc'[c] = "enter" /\ result'[c] = NoResult
         /\ (pc[c] = "search_op" /\ pc'[c] # "search_op") =>
               invoked'[c] = invoked[c] + 1
         /\ (pc[c] = "cache_set" /\ pc'[c] # "cache_set") =>
               /\ Cardinality(EntriesFor(cache', key[c])) = 1
               /\ \A i \in EntriesFor(cache', key[c]) :
                     cache'[i].results = val[c]]_vars

\* Two searches of one key both missed, both ran the operation and got
\* different results; both have written, and the cache holds the value of one
\* of them, which the other search did not return.
C28_Witness ==
    \E c, d \in Callers :
        /\ c # d
        /\ op[c] = "search" /\ op[d] = "search"
        /\ key[c] = key[d]
        /\ pc[c] = "idle" /\ pc[d] = "idle"
        /\ invoked[c] = 1 /\ invoked[d] = 1
        /\ result[c].kind = "value" /\ result[d].kind = "value"
        /\ result[c] # result[d]
        /\ ncalls = 2
        /\ misses = 2 /\ hits = 0
        /\ Len(cache) = 1
        /\ cache[1].key = key[d]
        /\ cache[1].results = result[d].val

\* The step in which thread c returns from set, invalidate or clear.
OtherReturns(c) ==
    pc[c] = "locked" /\ pc'[c] = "idle" /\ op'[c] \in {"set", "invalidate", "clear"}

\* C29: a get that returns a value adds one to hits and leaves misses; a get
\* that returns None adds one to misses and leaves hits; set, invalidate and
\* clear leave both; and no other step changes them, so hits + misses grows
\* by one with every completed get and by nothing else.
C29_OneCounterPerGet ==
    [][/\ \A c \in Callers :
            /\ (GetReturns(c) /\ result'[c] # Value(Miss)) =>
                  hits' = hits + 1 /\ misses' = misses
            /\ (GetReturns(c) /\ result'[c] = Value(Miss)) =>
                  misses' = misses + 1 /\ hits' = hits
            /\ OtherReturns(c) => (hits' = hits /\ misses' = misses)
       /\ (hits' + misses') - (hits + misses) =
             IF \E c \in Callers : GetReturns(c) THEN 1 ELSE 0]_vars

\* After one set, two gets have completed: the first was a hit, the second
\* met the entry expired, removed it and counted a miss.
C29_Witness ==
    /\ hits = 1
    /\ misses = 1
    /\ ncalls = 3
    /\ cache = << >>
    /\ now > ttl_seconds
    /\ \A c \in Callers : pc[c] = "idle"
    /\ \E c \in Callers : op[c] = "get" /\ result[c] = Value(Miss)

\* C30: the dictionary stats() returns is consistent: its hit_rate (num/den)
\* is 0 when its hits and misses are both 0, equals hits / (hits + misses)
\* otherwise, and is never above 1 - also when get calls run between the
\* statements of stats().
C30_StatsConsistent ==
    \A c \in Callers :
        local[c].kind = "cache_stats" =>
            LET s == local[c]
            IN /\ s.num <= s.den
               /\ IF s.hits + s.misses = 0
                  THEN s.num = 0
                  ELSE s.num * (s.hits + s.misses) = s.hits * s.den

\* The step in which thread c returns from invalidate.
InvalidateReturns(c) ==
    pc[c] = "locked" /\ pc'[c] = "idle" /\ op'[c] = "invalidate"

\* The entries of q under keys other than k, in their order.
Others(q, k) == SelectSeq(q, LAMBDA e : e.key # k)

\* C31: invalidate(k) leaves no entry for k; the entries under other keys
\* are what they were, in the same order; a cache without an entry for k is
\* left as it was; the hit and miss counters do not change.
C31_InvalidateRemovesOnlyTheKey ==
    [][\A c \in Callers :
         InvalidateReturns(c) =>
            /\ ~HasIn(cache', key'[c])
            /\ cache' = Others(cache, key'[c])
            /\ ~Has(key'[c]) => cache' = cache
            /\ hits' = hits
            /\ misses' = misses]_vars

\* After two sets under different keys an invalidate of one of them has
\* returned: the entry of the other key is the one left.
C31_Witness ==
    \E c \in Callers :
        /\ op[c] = "invalidate"
        /\ pc[c] = "idle"
        /\ ncalls = 3
        /\ max_size = 2
        /\ Len(cache) = 1
        /\ cache[1].key # key[c]
        /\ hits = 0 /\ misses = 0

\* the instance of kind k that the bridge a thread is constructing, or has
\* constructed, got from its getter (None: not fetched)
GotInstance(c, k) ==
    IF local[c].kind = "bridge" THEN local[c].got[k] ELSE None

\* C32: for one backend name there is one pool, one cache and one breaker:
\* any two bridges, also two constructed by racing threads, got the same
\* instance from get_pool, from get_cache and from get_breaker.
C32_OneInstancePerBackend ==
    \A c1, c2 \in Callers : \A k \in KindSet :
        (GotInstance(c1, k) # None /\ GotInstance(c2, k) # None)
            => GotInstance(c1, k) = GotInstance(c2, k)

\* the connections that callers hold open
CheckedOut == {c \in Callers : conn[c] # None /\ pc[c] # "closing"}

\* C33: the bookkeeping of the ODBC pool is consistent: the idle
\* connections and the checked-out ones together are the active count,
\* which is at most max_pool_size.
C33_OdbcBookkeeping ==
    /\ Len(odbc_pool) + Cardinality(CheckedOut) = odbc_active
    /\ odbc_active <= max_pool_size

\* C34: a set of a key the cache already holds overwrites that entry where
\* it is: the number of entries stays the same and the entries of the other
\* keys stay as they are, also in a cache that holds max_size entries.
C34_ResetOverwritesInPlace ==
    [][\A c \in Callers :
         (SetReturns(c) /\ Has(key'[c])) =>
            /\ Len(cache') = Len(cache)
            /\ Others(cache', key'[c]) = Others(cache, key'[c])
            /\ Cardinality(EntriesFor(cache', key'[c])) = 1
            /\ \A i \in EntriesFor(cache', key'[c]) :
                  /\ cache'[i].results = val'[c]
                  /\ cache'[i].timestamp = now]_vars

\* C35: the invalidate of a search that failed removes nothing or an
\* expired entry: the cache never holds, when the invalidate runs, an
\* unexpired entry of the key, such as one a concurrent search of the same
\* key wrote after its operation had returned.
C35_InvalidateRemovesOnlyStale ==
    [][\A c \in Callers :
         (pc[c] = "invalidate" /\ pc'[c] # "invalidate") =>
            (Has(key[c]) => Expired(cache[IndexOf(key[c])]))]_vars

\* Steps in which a guarded call leaves __exit__.
LeavesGuard(c) == pc[c] = "exit" /\ pc'[c] # "exit"

\* C36: the breaker records one outcome per admitted write, not one per
\* attempt. Its fields change only in a step through __enter__ or __exit__,
\* never in an attempt, a failure handler or a sleep of the retry loop; a
\* write enters __exit__ once, when execute_with_retry is over, and leaves
\* it at the end of the call; there a write that returns records a success
\* and no failure, whatever transient failures it retried, and a write that
\* raises (retries exhausted, or a permanent error) records one failure.
C36_OneOutcomePerGuardedCall ==
    [][/\ (breakerVars' # breakerVars \/ historyVars' # historyVars) =>
             \E c \in Callers : EntersGuard(c) \/ LeavesGuard(c)
       /\ \A c \in Callers :
             /\ (pc'[c] = "exit" /\ pc[c] # "exit") =>
                   /\ pc[c] \in {"finally", "except"}
                   /\ holds'[c] = 0
                   /\ err'[c] = "none" \/ ~IsTransient(err'[c])
                          \/ ~HasRetryBudget(attempt'[c])
             /\ (pc'[c] = "idle" /\ pc[c] # "idle") =>
                   \/ LeavesGuard(c)
                   \/ EntersGuard(c) /\ Denied(c)
             /\ LeavesGuard(c) =>
                   /\ pc'[c] = "idle"
                   /\ result'[c].kind \in {"value", "raise"}
                   /\ result'[c].kind = "value" =>
                         /\ err[c] = "none"
                         /\ failure_count' \in {0, failure_count}
                         /\ last_failure_time' = last_failure_time
                         /\ consec_failures' = 0
                   /\ result'[c].kind = "raise" =>
                         /\ err[c] # "none"
                         /\ failure_count' = failure_count + 1
                         /\ consec_failures' = consec_failures + 1
                         /\ success_count' = success_count]_vars

\* A write whose first two attempts failed transiently and whose third
\* returned: the breaker, which opens on the first failure it records, is
\* Closed with no failure counted.
C36_Witness ==
    \E c \in Callers :
        /\ op[c] = "add" /\ pc[c] = "idle"
        /\ result[c].kind = "value"
        /\ tally[c].failed = 2 /\ tally[c].succeeded = 1
        /\ failure_threshold = 1
        /\ state = CLOSED /\ failure_count = 0 /\ consec_failures = 0

\* C37: a Closed breaker has counted fewer failures than its threshold,
\* whatever guard entries, successes and failures have been recorded in
\* whatever order, outcomes of calls admitted before a change of state
\* included.
C37_ClosedBelowThreshold ==
    state = CLOSED => failure_count < failure_threshold

\* A breaker that has been Open and HalfOpen, closed again, and has since
\* counted a failure that is one short of its threshold.
C37_Witness ==
    /\ state = CLOSED
    /\ failure_threshold = 2
    /\ failure_count = 1
    /\ probe_successes >= 1
    /\ last_failure_time = now

\* C38: an Open breaker becomes anything else only in a guard entry that is
\* admitted once timeout_seconds have passed since the last failure, and
\* then it becomes HalfOpen. A success recorded while Open changes no field
\* of the breaker; a failure recorded while Open adds one to failure_count
\* and sets the last-failure time to now, and the breaker stays Open.
C38_OpenLeftOnlyByProbe ==
    [][/\ (state = OPEN /\ state' # OPEN) =>
             /\ state' = HALF_OPEN
             /\ now - last_failure_time >= timeout_seconds
             /\ \E c \in Callers : EntersGuard(c) /\ pc'[c] = "body"
       /\ \A c \in Callers :
             /\ (RecordsSuccess(c) /\ state = OPEN) =>
                   UNCHANGED <<state, failure_count, success_count,
                               last_failure_time>>
             /\ (RecordsFailure(c) /\ state = OPEN) =>
                   /\ state' = OPEN
                   /\ failure_count' = failure_count + 1
                   /\ last_failure_time' = now
                   /\ success_count' = success_count]_vars

\* Two calls were admitted by the Closed breaker; the failure of one opened
\* it, and the other then returned: its success was recorded while Open and
\* the breaker is Open as the failure left it.
C38_Witness ==
    \E c, d \in Callers :
        /\ pc[c] = "idle" /\ result[c].kind = "raise"
        /\ result[c] # Raise("breaker_open")
        /\ pc[d] = "idle" /\ result[d].kind = "value"
        /\ ncalls = 2
        /\ consec_failures = 0
        /\ state = OPEN
        /\ failure_count = failure_threshold
        /\ last_failure_time = 0 /\ now = 1

\* C39: every execute_with_retry call ends. A call makes at most
\* max_retries + 1 attempts, invokes the operation at most once per attempt
\* and sleeps at most max_retries times; and a thread that is inside a call
\* is outside it again later, with a value or an exception, whatever the
\* other threads do with the permits.
C39_CallsTerminate ==
    /\ [](\A c \in Callers :
            /\ attempt[c] <= max_retries
            /\ invoked[c] <= attempt[c] + 1
            /\ Len(tally[c].slept) <= max_retries
            /\ Len(tally[c].slept) <= attempt[c] + 1)
    /\ \A c \in Callers :
          (pc[c] # "idle") ~> (pc[c] = "idle" /\ result[c] # NoResult)

\* A call that used its whole budget while the other thread's call held the
\* only permit or failed as well: max_retries + 1 attempts, max_retries
\* sleeps, and the last error raised.
C39_Witness ==
    \E c, d \in Callers :
        /\ c # d
        /\ op[c] = "execute" /\ pc[c] = "idle"
        /\ result[c].kind = "raise"
        /\ attempt[c] = max_retries
        /\ Len(tally[c].slept) = max_retries
        /\ invoked[c] \in 1..max_retries
        /\ pc[d] = "run"

\* positions of a thread in the retry loop of the pool or in the operation
Unlocked == {"acquire", "run", "record_success", "finally", "except", "sleep",
             "search_op"}

\* the step a thread inside a call can take on its own
OwnStep(c) ==
    \/ AcquireLock(c)
    \/ LockedBody(c)
    \/ ReleaseLock(c)
    \/ (HoldsNoLock(c) /\ SearchOp(c))
    \/ (HoldsNoLock(c) /\ PoolStep(c))

\* C40: concurrent searches and adds do not deadlock. No thread holds the
\* cache's lock and the breaker's lock together; a thread holding a lock can
\* always go on to release it, without any step of another thread; a thread
\* that has gone on into the retry loop or the operation holds no lock; and
\* a thread inside a call can take a step unless it waits for a lock that
\* another thread holds - which that thread can release.
C40_NoDeadlock ==
    \A c \in Callers :
        /\ ~(lock["cache"] = c /\ lock["breaker"] = c)
        /\ ~HoldsNoLock(c) => ENABLED (LockedBody(c) \/ ReleaseLock(c))
        /\ (pc[c] \in Unlocked /\ ~ENABLED ReleaseLock(c)) => HoldsNoLock(c)
        /\ pc[c] # "idle" =>
              \/ ENABLED OwnStep(c)
              \/ \E d \in Callers \ {c} :
                    /\ lock[LockOf(pc[c])] = d
                    /\ ENABLED (LockedBody(d) \/ ReleaseLock(d))

\* One thread is inside cache.set, within the guard and the operation of its
\* search, while the other is inside the breaker's __exit__: each holds one
\* lock and neither waits for the other.
C40_Witness ==
    \E c, d \in Callers :
        /\ c # d
        /\ lock["cache"] = c /\ pc[c] = "cache_set"
        /\ lock["breaker"] = d /\ pc[d] = "exit"

====
